---- MODULE Spec2Model ----
(***************************************************************************)
(* Model of the cc65 debug info reader (src/dbginfo/dbginfo.c): the        *)
(* token-level record parser, the by-id collections, the post-processing   *)
(* passes that resolve ids into pointers, the span-by-address table and    *)
(* the lookup functions.                                                   *)
(*                                                                         *)
(* The input file is modelled after lexing of characters into lexemes: a   *)
(* sequence of [tok, val] records.  Strings are modelled by natural        *)
(* numbers whose order is the strcmp order.  Heap objects are modelled by  *)
(* their allocation index (per kind); pointer 0 is NULL.                   *)
(***************************************************************************)
EXTENDS Integers, Sequences, FiniteSets, TLC

VARIABLES
    pc,         \* position inside cc65_read_dbginfo / state of the handle
    D,          \* struct InputData (scanner state, error count, diagnostics)
    Info,       \* struct DbgInfo (the collections)
    heap,       \* the allocated *Info structs, per kind, in allocation order
    handle,     \* value returned by cc65_read_dbginfo ("none" while running)
    cat,        \* which family of input lines the environment feeds
    nfed,       \* number of record lines the environment has supplied
    passes,     \* number of times the post-processing passes have been run
    result      \* the last call of a lookup function and what it returned

vars == <<pc, D, Info, heap, handle, cat, nfed, passes, result>>

(***************************************************************************)
(* Bounds of the model                                                     *)
(***************************************************************************)
\* Width in bits of `unsigned' and of cc65_addr (scaled down from 32)
UnsignedBits == 3
\* Largest number of record lines after the version line, per input family
MaxLinesGen == 2
MaxLinesSpan == 4
MaxLinesLine == 8
\* Largest span start offset and span size in the span input family
MaxStart == 3
MaxSize == 2
\* Largest line number in the line input family and in lookups
MaxLineNo == 2
\* Number of record lines and largest symbol value in the symbol input family
MaxLinesSym == 6
MaxSymValue == 1
\* Number of record lines in the cross-reference input family
MaxLinesXref == 9
\* Number of record lines in the scope input family
MaxLinesScope == 7
\* Number of record lines in the input family of symbols with parents
MaxLinesLocal == 6
\* Number of record lines and largest id in the input family of record ids
MaxLinesIds == 3
MaxId == 2
\* Number of record lines in the input family of the sorted indexes
MaxLinesSort == 11

UnsignedMod == 2 ^ UnsignedBits
CC65_INV_ID == UnsignedMod - 1

VER_MAJOR == 2
VER_MINOR == 0

\* Truncation to `unsigned' / cc65_addr
U(x) == x % UnsignedMod

(***************************************************************************)
(* Collection entries: union CollEntry { void* Ptr; unsigned Id; }         *)
(***************************************************************************)
Id(n) == [k |-> "id", v |-> n]
Ptr(n) == [k |-> "ptr", v |-> n]
NULL == Ptr(0)

(***************************************************************************)
(* Tokens                                                                  *)
(***************************************************************************)
Keywords == {"TOK_ABSOLUTE", "TOK_ADDRSIZE", "TOK_COUNT", "TOK_ENUM",
             "TOK_EQUATE", "TOK_FILE", "TOK_GLOBAL", "TOK_ID", "TOK_INFO",
             "TOK_LABEL", "TOK_LIBRARY", "TOK_LINE", "TOK_LONG", "TOK_MAJOR",
             "TOK_MINOR", "TOK_MODULE", "TOK_MTIME", "TOK_NAME",
             "TOK_OUTPUTNAME", "TOK_OUTPUTOFFS", "TOK_PARENT", "TOK_RO",
             "TOK_RW", "TOK_SCOPE", "TOK_SEGMENT", "TOK_SIZE", "TOK_SPAN",
             "TOK_START", "TOK_STRUCT", "TOK_SYM", "TOK_TYPE", "TOK_VALUE",
             "TOK_VERSION", "TOK_ZEROPAGE"}

TokenIsKeyword(Tok) == Tok \in Keywords

(***************************************************************************)
(* Diagnostics                                                             *)
(***************************************************************************)
\* d.hung: the reader is in a loop that never ends (see SkipLine); what the
\* code after the loop would do is not done
ParseError(d, Type, Msg) ==
    IF d.hung THEN d
    ELSE [d EXCEPT !.Diag = Append(@, [type |-> Type, msg |-> Msg]),
                   !.Errors = IF Type = "CC65_ERROR" THEN @ + 1 ELSE @]

(***************************************************************************)
(* Scanner.  d.rest is the part of the input not yet scanned.  Scanning    *)
(* past what the environment has supplied so far sets d.starved; the       *)
(* result of such a computation is never used, the step waits for input.   *)
(* The lexeme INVALID_CHAR is a character that starts no token: the        *)
(* default case of NextToken reports it and returns without a call of      *)
(* NextChar and without an assignment to D->Tok, so every later call finds *)
(* the same character again (d.stuck).                                     *)
(***************************************************************************)
NextToken(d) ==
    IF d.hung THEN d
    ELSE IF d.starved \/ d.rest = <<>> THEN [d EXCEPT !.starved = TRUE]
    ELSE LET x == Head(d.rest) IN
         CASE x.tok = "TOK_EOF" ->
                [d EXCEPT !.Tok = "TOK_EOF"]
           [] x.tok = "INVALID_CHAR" ->
                [ParseError(d, "CC65_ERROR", "Invalid input character")
                    EXCEPT !.stuck = TRUE]
           [] x.tok = "TOK_INTCON" ->
                [d EXCEPT !.Tok = "TOK_INTCON", !.IVal = x.val, !.rest = Tail(@)]
           [] x.tok = "TOK_STRCON" ->
                [d EXCEPT !.Tok = "TOK_STRCON", !.SVal = x.val, !.rest = Tail(@)]
           [] x.tok = "UNTERMINATED" ->
                [ParseError(d, "CC65_ERROR", "Unterminated string constant")
                    EXCEPT !.Tok = "TOK_STRCON", !.SVal = x.val, !.rest = Tail(@)]
           [] OTHER ->
                [d EXCEPT !.Tok = x.tok, !.rest = Tail(@)]

\* while (D->Tok != TOK_EOL && D->Tok != TOK_EOF) NextToken (D): once the
\* scanner is stuck the token never changes and the loop never ends
RECURSIVE SkipLine(_)
SkipLine(d) ==
    IF d.starved \/ d.hung \/ d.Tok = "TOK_EOL" \/ d.Tok = "TOK_EOF" THEN d
    ELSE IF d.stuck THEN [d EXCEPT !.hung = TRUE]
    ELSE SkipLine(NextToken(d))

UnexpectedToken(d) ==
    SkipLine(ParseError(d, "CC65_ERROR", "Unexpected input token"))

RECURSIVE SkipValue(_)
SkipValue(d) ==
    IF d.starved \/ d.hung \/ d.Tok \in {"TOK_COMMA", "TOK_EOL", "TOK_EOF"} THEN d
    ELSE IF d.stuck THEN [d EXCEPT !.hung = TRUE]
    ELSE SkipValue(NextToken(d))

\* UnknownKeyword after "Skip the identifier"
SkipUnknown(d) ==
    IF d.Tok = "TOK_EQUAL" THEN SkipValue(NextToken(d))
    ELSE IF d.Tok \notin {"TOK_COMMA", "TOK_EOL", "TOK_EOF"} THEN SkipLine(d)
    ELSE d

UnknownKeyword(d) ==
    SkipUnknown(NextToken(ParseError(d, "CC65_WARNING", "Unknown keyword - skipping")))

\* The functions below return [d, ok]: the scanner state and the C result
TokenFollows(d, Tok, Name) ==
    IF d.Tok # Tok
    THEN [d |-> SkipLine(ParseError(d, "CC65_ERROR", Name)), ok |-> FALSE]
    ELSE [d |-> d, ok |-> TRUE]

IntConstFollows(d) == TokenFollows(d, "TOK_INTCON", "Integer constant expected")

StrConstFollows(d) == TokenFollows(d, "TOK_STRCON", "String literal expected")

\* Consume after the call of TokenFollows, whose result is r
SkipIfFollows(r) == IF r.ok THEN [r EXCEPT !.d = NextToken(@)] ELSE r

Consume(d, Tok, Name) == SkipIfFollows(TokenFollows(d, Tok, Name))

ConsumeEqual(d) == Consume(d, "TOK_EQUAL", "'=' expected")

ConsumeEOL(d) ==
    IF d.Tok # "TOK_EOF"
    THEN IF d.Tok # "TOK_EOL"
         THEN NextToken(SkipLine(ParseError(d, "CC65_ERROR", "Extra tokens in line")))
         ELSE NextToken(d)
    ELSE d

(***************************************************************************)
(* Record parsers.  ParseFile, ParseInfo, ParseLibrary, ParseLine,         *)
(* ParseModule, ParseScope, ParseSegment, ParseSpan and ParseSym share one *)
(* loop; they differ in the attributes they know, in how each attribute's  *)
(* value is read, in the required attributes and in the struct built.      *)
(* A record kind is named by its keyword token.                            *)
(***************************************************************************)
RecordKinds == {"TOK_FILE", "TOK_INFO", "TOK_LIBRARY", "TOK_LINE", "TOK_MODULE",
                "TOK_SCOPE", "TOK_SEGMENT", "TOK_SPAN", "TOK_SYM"}

\* The attributes a record kind knows ("Something we know?")
KnownAttrs(kind) ==
    CASE kind = "TOK_FILE" ->
            {"TOK_ID", "TOK_MODULE", "TOK_MTIME", "TOK_NAME", "TOK_SIZE"}
      [] kind = "TOK_INFO" ->
            {"TOK_FILE", "TOK_LIBRARY", "TOK_LINE", "TOK_MODULE", "TOK_SCOPE",
             "TOK_SEGMENT", "TOK_SPAN", "TOK_SYM"}
      [] kind = "TOK_LIBRARY" ->
            {"TOK_ID", "TOK_NAME"}
      [] kind = "TOK_LINE" ->
            {"TOK_COUNT", "TOK_FILE", "TOK_ID", "TOK_LINE", "TOK_SPAN", "TOK_TYPE"}
      [] kind = "TOK_MODULE" ->
            {"TOK_FILE", "TOK_ID", "TOK_NAME", "TOK_LIBRARY"}
      [] kind = "TOK_SCOPE" ->
            {"TOK_ID", "TOK_MODULE", "TOK_NAME", "TOK_PARENT", "TOK_SIZE",
             "TOK_SPAN", "TOK_SYM", "TOK_TYPE"}
      [] kind = "TOK_SEGMENT" ->
            {"TOK_ADDRSIZE", "TOK_ID", "TOK_NAME", "TOK_OUTPUTNAME",
             "TOK_OUTPUTOFFS", "TOK_SIZE", "TOK_START", "TOK_TYPE"}
      [] kind = "TOK_SPAN" ->
            {"TOK_ID", "TOK_SEGMENT", "TOK_SIZE", "TOK_START"}
      [] kind = "TOK_SYM" ->
            {"TOK_ADDRSIZE", "TOK_FILE", "TOK_ID", "TOK_NAME", "TOK_PARENT",
             "TOK_SCOPE", "TOK_SEGMENT", "TOK_SIZE", "TOK_TYPE", "TOK_VALUE"}

\* ibRequired of each record kind (ParseInfo has none)
RequiredAttrs(kind) ==
    CASE kind = "TOK_FILE" ->
            {"TOK_ID", "TOK_NAME", "TOK_SIZE", "TOK_MTIME", "TOK_MODULE"}
      [] kind = "TOK_INFO" -> {}
      [] kind = "TOK_LIBRARY" -> {"TOK_ID", "TOK_NAME"}
      [] kind = "TOK_LINE" -> {"TOK_FILE", "TOK_ID", "TOK_LINE"}
      [] kind = "TOK_MODULE" -> {"TOK_ID", "TOK_NAME", "TOK_FILE"}
      [] kind = "TOK_SCOPE" -> {"TOK_ID", "TOK_MODULE", "TOK_NAME"}
      [] kind = "TOK_SEGMENT" ->
            {"TOK_ID", "TOK_NAME", "TOK_START", "TOK_SIZE", "TOK_ADDRSIZE",
             "TOK_TYPE"}
      [] kind = "TOK_SPAN" -> {"TOK_ID", "TOK_SEGMENT", "TOK_SIZE", "TOK_START"}
      [] kind = "TOK_SYM" ->
            {"TOK_ADDRSIZE", "TOK_ID", "TOK_NAME", "TOK_TYPE", "TOK_VALUE"}

\* How the case of the inner switch reads the value of attribute Tok
ValueType(kind, Tok) ==
    CASE Tok = "TOK_ADDRSIZE" -> "any"
      [] Tok = "TOK_TYPE" /\ kind = "TOK_SEGMENT" -> "any"
      [] Tok = "TOK_TYPE" /\ kind = "TOK_SCOPE" -> "scopetype"
      [] Tok = "TOK_TYPE" /\ kind = "TOK_SYM" -> "symtype"
      [] Tok \in {"TOK_NAME", "TOK_OUTPUTNAME"} -> "str"
      [] Tok = "TOK_MODULE" /\ kind = "TOK_FILE" -> "list"
      [] Tok = "TOK_SPAN" /\ kind \in {"TOK_LINE", "TOK_SCOPE"} -> "list"
      [] OTHER -> "int"

\* The initial values of the locals of the Parse functions
DefaultVal(kind, Tok) ==
    CASE Tok = "TOK_TYPE" /\ kind = "TOK_SCOPE" -> "CC65_SCOPE_MODULE"
      [] Tok = "TOK_TYPE" /\ kind = "TOK_SYM" -> "CC65_SYM_EQUATE"
      [] Tok = "TOK_ID" /\ kind \in {"TOK_LINE", "TOK_MODULE", "TOK_SCOPE", "TOK_SYM"}
            -> CC65_INV_ID
      [] Tok \in {"TOK_FILE", "TOK_LIBRARY", "TOK_MODULE", "TOK_PARENT",
                  "TOK_SCOPE", "TOK_SEGMENT", "TOK_SYM"}
            -> CC65_INV_ID
      [] OTHER -> 0

\* Assignment of the unsigned long D->IVal to the local of the attribute:
\* unsigned and cc65_addr locals truncate, unsigned long and long ones do not
Convert(kind, Tok, v) ==
    IF \/ kind = "TOK_FILE" /\ Tok \in {"TOK_SIZE", "TOK_MTIME"}
       \/ Tok = "TOK_OUTPUTOFFS"
       \/ Tok = "TOK_VALUE"
    THEN v ELSE U(v)

NoAttrs(kind) ==
    [bits |-> {},
     val |-> [a \in Keywords |-> DefaultVal(kind, a)],
     ids |-> <<>>]

\* "a = 1+2+3": the while (1) loop appending ids.  IdList is the loop body
\* up to the append and the NextToken, MoreIds the check for '+'
RECURSIVE IdList(_, _)
MoreIds(d, ids) ==
    IF d.starved \/ d.Tok # "TOK_PLUS"
    THEN [d |-> d, ids |-> ids, ok |-> TRUE]
    ELSE IdList(NextToken(d), ids)

IdList(d, ids) ==
    IF d.Tok # "TOK_INTCON"
    THEN [d |-> IntConstFollows(d).d, ids |-> ids, ok |-> FALSE]
    ELSE MoreIds(NextToken(d), Append(ids, U(d.IVal)))

\* The end of a case that reads a list of ids, whose result is r
ListValue(A, Tok, r) ==
    IF ~r.ok THEN [d |-> r.d, A |-> A, ok |-> FALSE]
    ELSE [d |-> r.d, A |-> [A EXCEPT !.bits = @ \cup {Tok}, !.ids = r.ids], ok |-> TRUE]

\* One case of the switch (Tok): read the value, set the bit
ParseValue(kind, Tok, d, A) ==
    LET vt == ValueType(kind, Tok)
        seen == [A EXCEPT !.bits = @ \cup {Tok}]
    IN  CASE vt = "any" ->
                [d |-> NextToken(d), A |-> seen, ok |-> TRUE]
          [] vt = "int" ->
                IF d.Tok # "TOK_INTCON"
                THEN [d |-> IntConstFollows(d).d, A |-> A, ok |-> FALSE]
                ELSE     [d |-> NextToken(d),
                          A |-> [seen EXCEPT !.val[Tok] = Convert(kind, Tok, d.IVal)],
                          ok |-> TRUE]
          [] vt = "str" ->
                IF d.Tok # "TOK_STRCON"
                THEN [d |-> StrConstFollows(d).d, A |-> A, ok |-> FALSE]
                ELSE     [d |-> NextToken(d),
                          A |-> [seen EXCEPT !.val[Tok] = d.SVal],
                          ok |-> TRUE]
          [] vt = "list" ->
                ListValue(A, Tok, IdList(d, A.ids))
          [] vt = "scopetype" ->
                IF d.Tok \in {"TOK_GLOBAL", "TOK_FILE", "TOK_SCOPE", "TOK_STRUCT", "TOK_ENUM"}
                THEN [d |-> NextToken(d),
                      A |-> [seen EXCEPT !.val[Tok] =
                                CASE d.Tok = "TOK_GLOBAL" -> "CC65_SCOPE_GLOBAL"
                                  [] d.Tok = "TOK_FILE" -> "CC65_SCOPE_MODULE"
                                  [] d.Tok = "TOK_SCOPE" -> "CC65_SCOPE_SCOPE"
                                  [] d.Tok = "TOK_STRUCT" -> "CC65_SCOPE_STRUCT"
                                  [] d.Tok = "TOK_ENUM" -> "CC65_SCOPE_ENUM"],
                      ok |-> TRUE]
                ELSE [d |-> SkipLine(ParseError(d, "CC65_ERROR",
                                     "Unknown value for attribute type")),
                      A |-> A, ok |-> FALSE]
          [] vt = "symtype" ->
                IF d.Tok \in {"TOK_EQUATE", "TOK_LABEL"}
                THEN [d |-> NextToken(d),
                      A |-> [seen EXCEPT !.val[Tok] =
                                IF d.Tok = "TOK_EQUATE" THEN "CC65_SYM_EQUATE"
                                                        ELSE "CC65_SYM_LABEL"],
                      ok |-> TRUE]
                ELSE [d |-> SkipLine(ParseError(d, "CC65_ERROR",
                                     "Unknown value for attribute type")),
                      A |-> A, ok |-> FALSE]

\* The while (1) loop over the attributes of a record.  d.Tok is the token
\* after the record keyword.  Returns [d, A, ok]; ok = FALSE is goto ErrorExit
RECURSIVE ParseAttrs(_, _, _)
\* "Comma or done", v being the result of the switch
CommaOrDone(kind, v) ==
    IF ~v.ok THEN v
    ELSE IF v.d.Tok # "TOK_COMMA" THEN v
    ELSE ParseAttrs(kind, NextToken(v.d), v.A)

\* The switch (Tok), e being the result of ConsumeEqual
SwitchTok(kind, Tok, e, A) ==
    IF ~e.ok THEN [d |-> e.d, A |-> A, ok |-> FALSE]
    ELSE CommaOrDone(kind, ParseValue(kind, Tok, e.d, A))

ParseAttrs(kind, d, A) ==
    IF d.starved \/ d.hung THEN [d |-> d, A |-> A, ok |-> FALSE]
    ELSE IF d.Tok \notin KnownAttrs(kind)
    THEN IF d.Tok = "TOK_IDENT" \/ TokenIsKeyword(d.Tok)
         THEN ParseAttrs(kind, UnknownKeyword(d), A)
         ELSE [d |-> d, A |-> A, ok |-> TRUE]
    ELSE SwitchTok(kind, d.Tok, ConsumeEqual(NextToken(d)), A)

\* The checks between the loop and the creation of the struct.
\* Returns [d, A, ok]; ok = TRUE when the struct is to be created
ParseChecks(kind, r) ==
    IF ~r.ok THEN r
    ELSE IF r.d.Tok # "TOK_EOL" /\ r.d.Tok # "TOK_EOF"
    THEN [r EXCEPT !.d = SkipLine(UnexpectedToken(r.d)), !.ok = FALSE]
    ELSE IF ~(RequiredAttrs(kind) \subseteq r.A.bits)
    THEN [r EXCEPT !.d = ParseError(r.d, "CC65_ERROR", "Required attributes missing"),
                   !.ok = FALSE]
    ELSE IF /\ kind = "TOK_SEGMENT"
            /\ r.A.bits \cap {"TOK_OUTPUTNAME", "TOK_OUTPUTOFFS"} # {}
            /\ ~({"TOK_OUTPUTNAME", "TOK_OUTPUTOFFS"} \subseteq r.A.bits)
    THEN [r EXCEPT !.d = ParseError(r.d, "CC65_ERROR",
                            "Attributes outputname and outputoffs must be paired"),
                   !.ok = FALSE]
    ELSE IF /\ kind = "TOK_SYM"
            /\ \/ r.A.bits \cap {"TOK_SCOPE", "TOK_PARENT"} = {}
               \/ {"TOK_SCOPE", "TOK_PARENT"} \subseteq r.A.bits
    THEN [r EXCEPT !.d = ParseError(r.d, "CC65_ERROR",
                            "Only one of parent, scope must be specified"),
                   !.ok = FALSE]
    ELSE r

(***************************************************************************)
(* Collections (sequences; C index i is position i + 1)                    *)
(***************************************************************************)
CollCount(C) == Len(C)

CollAt(C, Index) == C[Index + 1]

CollAppend(C, Item) == Append(C, Item)

CollReplace(C, Item, Index) == [C EXCEPT ![Index + 1] = Item]

\* CollReplaceExpand without the slots: the item is added at the end
CollReplaceExpandAppends(C, Item, Index) == Append(C, Item)

CollReplaceExpand(C, Item, Index) ==
    IF Index < Len(C)
    THEN [C EXCEPT ![Index + 1] = Item]
    ELSE C \o [i \in 1..(Index - Len(C)) |-> NULL] \o <<Item>>

(***************************************************************************)
(* The structs built at the end of the Parse functions.  db = [Info, heap]. *)
(***************************************************************************)
NewDbgInfo ==
    [FileInfoById |-> <<>>, LibInfoById |-> <<>>, LineInfoById |-> <<>>,
     ModInfoById |-> <<>>, ScopeInfoById |-> <<>>, SegInfoById |-> <<>>,
     SpanInfoById |-> <<>>, SymInfoById |-> <<>>,
     FileInfoByName |-> <<>>, ModInfoByName |-> <<>>, SegInfoByName |-> <<>>,
     SymInfoByName |-> <<>>, SymInfoByVal |-> <<>>,
     SpanInfoByAddr |-> [Count |-> 0, List |-> <<>>]]

EmptyHeap ==
    [File |-> <<>>, Lib |-> <<>>, Line |-> <<>>, Mod |-> <<>>, Scope |-> <<>>,
     Seg |-> <<>>, Span |-> <<>>, Sym |-> <<>>]

IdList2Coll(ids) == [i \in 1..Len(ids) |-> Id(ids[i])]

CreateFile(A, db) ==
    LET F == [Id |-> A.val["TOK_ID"], Size |-> A.val["TOK_SIZE"],
              MTime |-> A.val["TOK_MTIME"],
              ModInfoByName |-> IdList2Coll(A.ids), LineInfoByLine |-> <<>>,
              Name |-> A.val["TOK_NAME"]]
        p == Ptr(Len(db.heap.File) + 1)
    IN  [heap |-> [db.heap EXCEPT !.File = Append(@, F)],
         Info |-> [db.Info EXCEPT
                      !.FileInfoById = CollReplaceExpand(@, p, F.Id),
                      !.FileInfoByName = CollAppend(@, p)]]

CreateLibrary(A, db) ==
    LET L == [Id |-> A.val["TOK_ID"], Name |-> A.val["TOK_NAME"]]
        p == Ptr(Len(db.heap.Lib) + 1)
    IN  [heap |-> [db.heap EXCEPT !.Lib = Append(@, L)],
         Info |-> [db.Info EXCEPT !.LibInfoById = CollReplaceExpand(@, p, L.Id)]]

CreateLine(A, db) ==
    LET L == [Id |-> A.val["TOK_ID"], Line |-> A.val["TOK_LINE"],
              File |-> Id(A.val["TOK_FILE"]), Type |-> A.val["TOK_TYPE"],
              Count |-> A.val["TOK_COUNT"],
              SpanInfoList |-> IdList2Coll(A.ids)]
        p == Ptr(Len(db.heap.Line) + 1)
    IN  [heap |-> [db.heap EXCEPT !.Line = Append(@, L)],
         Info |-> [db.Info EXCEPT !.LineInfoById = CollReplaceExpand(@, p, L.Id)]]

CreateModule(A, db) ==
    LET M == [Id |-> A.val["TOK_ID"], File |-> Id(A.val["TOK_FILE"]),
              Lib |-> Id(A.val["TOK_LIBRARY"]), MainScope |-> NULL,
              FileInfoByName |-> <<>>, ScopeInfoByName |-> <<>>,
              Name |-> A.val["TOK_NAME"]]
        p == Ptr(Len(db.heap.Mod) + 1)
    IN  [heap |-> [db.heap EXCEPT !.Mod = Append(@, M)],
         Info |-> [db.Info EXCEPT
                      !.ModInfoById = CollReplaceExpand(@, p, M.Id),
                      !.ModInfoByName = CollAppend(@, p)]]

CreateScope(A, db) ==
    LET S == [Id |-> A.val["TOK_ID"], Type |-> A.val["TOK_TYPE"],
              Size |-> A.val["TOK_SIZE"], Mod |-> Id(A.val["TOK_MODULE"]),
              Parent |-> Id(A.val["TOK_PARENT"]), Label |-> Id(A.val["TOK_SYM"]),
              SpanInfoList |-> IdList2Coll(A.ids), Name |-> A.val["TOK_NAME"]]
        p == Ptr(Len(db.heap.Scope) + 1)
    IN  [heap |-> [db.heap EXCEPT !.Scope = Append(@, S)],
         Info |-> [db.Info EXCEPT !.ScopeInfoById = CollReplaceExpand(@, p, S.Id)]]

CreateSegment(A, db) ==
    LET given == "TOK_OUTPUTNAME" \in A.bits /\ A.val["TOK_OUTPUTNAME"] > 0
        S == [Id |-> A.val["TOK_ID"], Start |-> A.val["TOK_START"],
              Size |-> A.val["TOK_SIZE"],
              OutputName |-> IF given THEN A.val["TOK_OUTPUTNAME"] ELSE 0,
              OutputOffs |-> IF given THEN A.val["TOK_OUTPUTOFFS"] ELSE 0,
              Name |-> A.val["TOK_NAME"]]
        p == Ptr(Len(db.heap.Seg) + 1)
    IN  [heap |-> [db.heap EXCEPT !.Seg = Append(@, S)],
         Info |-> [db.Info EXCEPT
                      !.SegInfoById = CollReplaceExpand(@, p, S.Id),
                      !.SegInfoByName = CollAppend(@, p)]]

CreateSpan(A, db) ==
    LET S == [Id |-> A.val["TOK_ID"], Seg |-> Id(A.val["TOK_SEGMENT"]),
              Start |-> A.val["TOK_START"],
              End |-> U(A.val["TOK_START"] + A.val["TOK_SIZE"] + UnsignedMod - 1),
              ScopeInfoList |-> <<>>, LineInfoList |-> <<>>]
        p == Ptr(Len(db.heap.Span) + 1)
    IN  [heap |-> [db.heap EXCEPT !.Span = Append(@, S)],
         Info |-> [db.Info EXCEPT !.SpanInfoById = CollReplaceExpand(@, p, S.Id)]]

CreateSym(A, db) ==
    LET S == [Id |-> A.val["TOK_ID"], Type |-> A.val["TOK_TYPE"],
              Value |-> A.val["TOK_VALUE"], Size |-> A.val["TOK_SIZE"],
              Seg |-> Id(A.val["TOK_SEGMENT"]), Scope |-> Id(A.val["TOK_SCOPE"]),
              Parent |-> Id(A.val["TOK_PARENT"]), Name |-> A.val["TOK_NAME"]]
        p == Ptr(Len(db.heap.Sym) + 1)
    IN  [heap |-> [db.heap EXCEPT !.Sym = Append(@, S)],
         Info |-> [db.Info EXCEPT
                      !.SymInfoById = CollReplaceExpand(@, p, S.Id),
                      !.SymInfoByName = CollAppend(@, p),
                      !.SymInfoByVal = CollAppend(@, p)]]

CreateRecord(kind, A, db) ==
    CASE kind = "TOK_FILE" -> CreateFile(A, db)
      [] kind = "TOK_INFO" -> db
      [] kind = "TOK_LIBRARY" -> CreateLibrary(A, db)
      [] kind = "TOK_LINE" -> CreateLine(A, db)
      [] kind = "TOK_MODULE" -> CreateModule(A, db)
      [] kind = "TOK_SCOPE" -> CreateScope(A, db)
      [] kind = "TOK_SEGMENT" -> CreateSegment(A, db)
      [] kind = "TOK_SPAN" -> CreateSpan(A, db)
      [] kind = "TOK_SYM" -> CreateSym(A, db)

\* A whole Parse<kind> function: skip the keyword, the loop, the checks, the
\* creation.  Returns [d, db, created]
\* The end of a Parse function: create the struct and remember it, unless
\* the function went to ErrorExit (r.ok = FALSE)
CreateIfOk(kind, r, db) ==
    [d |-> r.d,
     db |-> IF r.ok THEN CreateRecord(kind, r.A, db) ELSE db,
     created |-> r.ok /\ kind # "TOK_INFO"]

ParseRecord(kind, d, db) ==
    CreateIfOk(kind, ParseChecks(kind, ParseAttrs(kind, NextToken(d), NoAttrs(kind))), db)

(***************************************************************************)
(* ParseVersion                                                            *)
(***************************************************************************)
\* The while loop over the attributes.  Returns [d, bits, ok]; ok = FALSE is
\* goto ErrorExit
RECURSIVE VersionAttrs(_, _)
\* "Comma follows before next attribute", r being the result of the switch
VersionComma(r) ==
    IF ~r.ok THEN r
    ELSE IF r.d.Tok = "TOK_COMMA" THEN VersionAttrs(NextToken(r.d), r.bits)
    ELSE IF r.d.Tok = "TOK_EOL" \/ r.d.Tok = "TOK_EOF" THEN r
    ELSE [d |-> UnexpectedToken(r.d), bits |-> r.bits, ok |-> FALSE]

\* case TOK_MAJOR and case TOK_MINOR after ConsumeEqual, whose result is e
VersionNumber(Tok, e, bits) ==
    IF ~e.ok THEN [d |-> e.d, bits |-> bits, ok |-> FALSE]
    ELSE IF e.d.Tok # "TOK_INTCON"
    THEN [d |-> IntConstFollows(e.d).d, bits |-> bits, ok |-> FALSE]
    ELSE [d |-> NextToken(IF Tok = "TOK_MAJOR"
                          THEN [e.d EXCEPT !.MajorVersion = U(e.d.IVal)]
                          ELSE [e.d EXCEPT !.MinorVersion = U(e.d.IVal)]),
          bits |-> bits \cup {Tok}, ok |-> TRUE]

VersionAttrs(d, bits) ==
    IF d.starved \/ d.hung \/ d.Tok = "TOK_EOL" \/ d.Tok = "TOK_EOF"
    THEN [d |-> d, bits |-> bits, ok |-> ~d.hung]
    ELSE VersionComma(
             CASE d.Tok \in {"TOK_MAJOR", "TOK_MINOR"} ->
                    VersionNumber(d.Tok, ConsumeEqual(NextToken(d)), bits)
               [] d.Tok = "TOK_IDENT" ->
                    [d |-> UnknownKeyword(d), bits |-> bits, ok |-> TRUE]
               [] OTHER ->
                    [d |-> SkipLine(UnexpectedToken(d)), bits |-> bits, ok |-> FALSE])

\* "Check for required information", r being the result of the loop
VersionRequired(r) ==
    IF r.ok /\ ~({"TOK_MAJOR", "TOK_MINOR"} \subseteq r.bits)
    THEN ParseError(r.d, "CC65_ERROR", "Required attributes missing")
    ELSE r.d

ParseVersion(d) == VersionRequired(VersionAttrs(NextToken(d), {}))

(***************************************************************************)
(* CollSort.  The Compare functions all compare a few fields in order, so  *)
(* each is modelled by the tuple of those fields (keys[p] for the struct   *)
(* at pointer p) compared lexicographically.                               *)
(***************************************************************************)
RECURSIVE Compare(_, _)
Compare(L, R) ==
    IF L = <<>> THEN 0
    ELSE IF Head(L) > Head(R) THEN 1
    ELSE IF Head(L) < Head(R) THEN -1
    ELSE Compare(Tail(L), Tail(R))

Swap(Items, I, J) == [Items EXCEPT ![I + 1] = Items[J + 1], ![J + 1] = Items[I + 1]]

RECURSIVE ScanUp(_, _, _, _, _)
ScanUp(Items, keys, Lo, I, J) ==
    IF I <= J /\ Compare(keys[Items[Lo + 1].v], keys[Items[I + 1].v]) >= 0
    THEN ScanUp(Items, keys, Lo, I + 1, J) ELSE I

RECURSIVE ScanDown(_, _, _, _, _)
ScanDown(Items, keys, Lo, I, J) ==
    IF I <= J /\ Compare(keys[Items[Lo + 1].v], keys[Items[J + 1].v]) < 0
    THEN ScanDown(Items, keys, Lo, I, J - 1) ELSE J

\* The inner while (I <= J) loop; returns [Items, J].  PartitionStep is the
\* loop body after the two scans, which stopped at I and J
RECURSIVE Partition(_, _, _, _, _)
PartitionStep(Items, keys, Lo, I, J) ==
    IF I <= J
    THEN Partition(Swap(Items, I, J), keys, Lo, I + 1, J - 1)
    ELSE Partition(Items, keys, Lo, I, J)

Partition(Items, keys, Lo, I, J) ==
    IF I > J THEN [Items |-> Items, J |-> J]
    ELSE PartitionStep(Items, keys, Lo, ScanUp(Items, keys, Lo, I, J),
                       ScanDown(Items, keys, Lo, ScanUp(Items, keys, Lo, I, J), J))

\* "Swap the partition element", P being the result of the inner loop
PlacePivot(P, Lo) ==
    IF P.J # Lo THEN [P EXCEPT !.Items = Swap(@, P.J, Lo)] ELSE P

RECURSIVE CollQuickSort(_, _, _, _)
\* The recursive call for one half and the outer loop for the other
SortHalves(P, keys, Lo, Hi) ==
    IF P.J > (Hi + Lo) \div 2
    THEN CollQuickSort(CollQuickSort(P.Items, keys, P.J + 1, Hi), keys, Lo, P.J - 1)
    ELSE CollQuickSort(CollQuickSort(P.Items, keys, Lo, P.J - 1), keys, P.J + 1, Hi)

CollQuickSort(Items, keys, Lo, Hi) ==
    IF Hi <= Lo THEN Items
    ELSE SortHalves(PlacePivot(Partition(Items, keys, Lo, Lo + 1, Hi), Lo), keys, Lo, Hi)

CollSort(C, keys) ==
    IF Len(C) > 1 THEN CollQuickSort(C, keys, 0, Len(C) - 1) ELSE C

KeysOf(objs, Key(_)) == [i \in 1..Len(objs) |-> Key(objs[i])]

\* The comparison of files with the size before the time
CompareFileInfoBySize(F) == <<F.Name, F.Size, F.MTime>>

CompareFileInfoByName(F) == <<F.Name, F.MTime, F.Size>>
CompareLineInfoByLine(L) == <<L.Line>>
CompareModInfoByName(M) == <<M.Name>>
CompareScopeInfoByName(S) == <<S.Name>>
CompareSegInfoByName(S) == <<S.Name>>
CompareSpanInfoByAddr(S) == <<S.Start, S.End>>
CompareSymInfoByName(S) == <<S.Name>>
CompareSymInfoByVal(S) == <<S.Value, S.Name>>

(***************************************************************************)
(* Postprocessing.  m = [d, Info, heap, crash].  crash is set when the     *)
(* code dereferences a null pointer (an unused slot of a by-id collection  *)
(* or an unresolved reference); the pass stops there.                      *)
(***************************************************************************)
Crash(m) == [m EXCEPT !.crash = TRUE]

Error(m, Msg) == [m EXCEPT !.d = ParseError(@, "CC65_ERROR", Msg)]

\* The loop over F->ModInfoByName (F at pointer fp)
RECURSIVE ResolveFileModules(_, _, _)
ResolveFileModules(m, fp, J) ==
    IF m.crash \/ J >= CollCount(m.heap.File[fp].ModInfoByName) THEN m
    ELSE LET ModId == CollAt(m.heap.File[fp].ModInfoByName, J).v
         IN  IF ModId >= CollCount(m.Info.ModInfoById)
             THEN ResolveFileModules(
                      [Error(m, "Invalid module id for file")
                           EXCEPT !.heap.File[fp].ModInfoByName = CollReplace(@, NULL, J)],
                      fp, J + 1)
             ELSE LET M == CollAt(m.Info.ModInfoById, ModId)
                  IN  IF M = NULL THEN Crash(m)
                      ELSE ResolveFileModules(
                               [m EXCEPT !.heap.File[fp].ModInfoByName = CollReplace(@, M, J),
                                         !.heap.Mod[M.v].FileInfoByName = CollAppend(@, Ptr(fp))],
                               fp, J + 1)

\* "If we didn't have any errors, sort the modules by name"
SortFileModules(m, fp) ==
    IF m.crash \/ m.d.Errors # 0 THEN m
    ELSE [m EXCEPT !.heap.File[fp].ModInfoByName =
             CollSort(@, KeysOf(m.heap.Mod, CompareModInfoByName))]

RECURSIVE ProcessFileInfoFiles(_, _)
ProcessFileInfoFiles(m, I) ==
    IF m.crash \/ I >= CollCount(m.Info.FileInfoById) THEN m
    ELSE LET F == CollAt(m.Info.FileInfoById, I)
         IN  IF F = NULL THEN Crash(m)
             ELSE ProcessFileInfoFiles(
                      SortFileModules(ResolveFileModules(m, F.v, 0), F.v), I + 1)

RECURSIVE ProcessFileInfoModules(_, _)
ProcessFileInfoModules(m, I) ==
    IF m.crash \/ I >= CollCount(m.Info.ModInfoById) THEN m
    ELSE LET M == CollAt(m.Info.ModInfoById, I)
         IN  IF M = NULL THEN Crash(m)
             ELSE ProcessFileInfoModules(
                      [m EXCEPT !.heap.Mod[M.v].FileInfoByName =
                          CollSort(@, KeysOf(m.heap.File, CompareFileInfoByName))],
                      I + 1)

\* "Sort the file infos by name, so we can do a binary search"
SortFileInfoByName(m) ==
    IF m.crash THEN m
    ELSE [m EXCEPT !.Info.FileInfoByName =
             CollSort(@, KeysOf(m.heap.File, CompareFileInfoByName))]

ProcessFileInfo(m) ==
    SortFileInfoByName(ProcessFileInfoModules(ProcessFileInfoFiles(m, 0), 0))

\* The first loop; note the second ++I at the end of the loop body
RECURSIVE ProcessLineInfoLines(_, _)
ProcessLineInfoLines(m, I) ==
    IF m.crash \/ I >= CollCount(m.Info.LineInfoById) THEN m
    ELSE LET L == CollAt(m.Info.LineInfoById, I)
         IN  IF L = NULL THEN Crash(m)
             ELSE LET FileId == m.heap.Line[L.v].File.v
                  IN  IF FileId >= CollCount(m.Info.FileInfoById)
                      THEN ProcessLineInfoLines(
                               [Error(m, "Invalid file id for line")
                                    EXCEPT !.heap.Line[L.v].File = NULL],
                               I + 2)
                      ELSE LET F == CollAt(m.Info.FileInfoById, FileId)
                           IN  IF F = NULL THEN Crash(m)
                               ELSE ProcessLineInfoLines(
                                        [m EXCEPT !.heap.Line[L.v].File = F,
                                                  !.heap.File[F.v].LineInfoByLine =
                                                       CollAppend(@, L)],
                                        I + 2)

RECURSIVE ProcessLineInfoFiles(_, _)
ProcessLineInfoFiles(m, I) ==
    IF m.crash \/ I >= CollCount(m.Info.FileInfoById) THEN m
    ELSE LET F == CollAt(m.Info.FileInfoById, I)
         IN  IF F = NULL THEN Crash(m)
             ELSE ProcessLineInfoFiles(
                      [m EXCEPT !.heap.File[F.v].LineInfoByLine =
                          CollSort(@, KeysOf(m.heap.Line, CompareLineInfoByLine))],
                      I + 1)

ProcessLineInfo(m) == ProcessLineInfoFiles(ProcessLineInfoLines(m, 0), 0)

\* "Resolve the main file" of the module at pointer mp
ResolveModFile(m, mp) ==
    IF m.heap.Mod[mp].File.v >= CollCount(m.Info.FileInfoById)
    THEN [Error(m, "Invalid file id for module") EXCEPT !.heap.Mod[mp].File = NULL]
    ELSE [m EXCEPT !.heap.Mod[mp].File = CollAt(m.Info.FileInfoById, @.v)]

\* "Resolve the library" of the module at pointer mp
ResolveModLib(m, mp) ==
    IF m.heap.Mod[mp].Lib.v = CC65_INV_ID
    THEN [m EXCEPT !.heap.Mod[mp].Lib = NULL]
    ELSE IF m.heap.Mod[mp].Lib.v >= CollCount(m.Info.LibInfoById)
    THEN [Error(m, "Invalid library id for module") EXCEPT !.heap.Mod[mp].Lib = NULL]
    ELSE [m EXCEPT !.heap.Mod[mp].Lib = CollAt(m.Info.LibInfoById, @.v)]

RECURSIVE ProcessModInfoModules(_, _)
ProcessModInfoModules(m, I) ==
    IF m.crash \/ I >= CollCount(m.Info.ModInfoById) THEN m
    ELSE LET M == CollAt(m.Info.ModInfoById, I)
         IN  IF M = NULL THEN Crash(m)
             ELSE ProcessModInfoModules(ResolveModLib(ResolveModFile(m, M.v), M.v), I + 1)

\* "Sort the collection that contains the module info by name"
SortModInfoByName(m) ==
    IF m.crash THEN m
    ELSE [m EXCEPT !.Info.ModInfoByName =
             CollSort(@, KeysOf(m.heap.Mod, CompareModInfoByName))]

ProcessModInfo(m) == SortModInfoByName(ProcessModInfoModules(m, 0))

\* The loop over the spans of a scope without the link back from the span
RECURSIVE ResolveScopeSpansOneWay(_, _, _)
ResolveScopeSpansOneWay(m, sp, J) ==
    IF m.crash \/ J >= CollCount(m.heap.Scope[sp].SpanInfoList) THEN m
    ELSE LET SpanId == CollAt(m.heap.Scope[sp].SpanInfoList, J).v
         IN  IF SpanId >= CollCount(m.Info.SpanInfoById)
             THEN ResolveScopeSpansOneWay(
                      [Error(m, "Invalid span id for scope")
                           EXCEPT !.heap.Scope[sp].SpanInfoList = CollReplace(@, NULL, J)],
                      sp, J + 1)
             ELSE LET SP == CollAt(m.Info.SpanInfoById, SpanId)
                  IN  IF SP = NULL THEN Crash(m)
                      ELSE ResolveScopeSpansOneWay(
                               [m EXCEPT !.heap.Scope[sp].SpanInfoList = CollReplace(@, SP, J)],
                               sp, J + 1)

\* The loop over S->SpanInfoList (S at pointer sp)
RECURSIVE ResolveScopeSpans(_, _, _)
ResolveScopeSpans(m, sp, J) ==
    IF m.crash \/ J >= CollCount(m.heap.Scope[sp].SpanInfoList) THEN m
    ELSE LET SpanId == CollAt(m.heap.Scope[sp].SpanInfoList, J).v
         IN  IF SpanId >= CollCount(m.Info.SpanInfoById)
             THEN ResolveScopeSpans(
                      [Error(m, "Invalid span id for scope")
                           EXCEPT !.heap.Scope[sp].SpanInfoList = CollReplace(@, NULL, J)],
                      sp, J + 1)
             ELSE LET SP == CollAt(m.Info.SpanInfoById, SpanId)
                  IN  IF SP = NULL THEN Crash(m)
                      ELSE ResolveScopeSpans(
                               [m EXCEPT !.heap.Scope[sp].SpanInfoList = CollReplace(@, SP, J),
                                         !.heap.Span[SP.v].ScopeInfoList = CollAppend(@, Ptr(sp))],
                               sp, J + 1)

\* "Resolve the module" of the scope S (a pointer): add the scope to the
\* module's list; a scope without parent is the module's main scope
ResolveScopeMod(m, S) ==
    IF m.heap.Scope[S.v].Mod.v >= CollCount(m.Info.ModInfoById)
    THEN [Error(m, "Invalid module id for scope") EXCEPT !.heap.Scope[S.v].Mod = NULL]
    ELSE LET ModP == CollAt(m.Info.ModInfoById, m.heap.Scope[S.v].Mod.v)
         IN  IF ModP = NULL THEN Crash(m)
             ELSE [m EXCEPT !.heap.Scope[S.v].Mod = ModP,
                            !.heap.Mod[ModP.v].ScopeInfoByName = CollAppend(@, S),
                            !.heap.Mod[ModP.v].MainScope =
                                 IF m.heap.Scope[S.v].Parent.v = CC65_INV_ID
                                 THEN S ELSE @]

\* "Resolve the parent scope"
ResolveScopeParent(m, S) ==
    IF m.crash THEN m
    ELSE IF m.heap.Scope[S.v].Parent.v = CC65_INV_ID
    THEN [m EXCEPT !.heap.Scope[S.v].Parent = NULL]
    ELSE IF m.heap.Scope[S.v].Parent.v >= CollCount(m.Info.ScopeInfoById)
    THEN [Error(m, "Invalid parent scope id for scope")
              EXCEPT !.heap.Scope[S.v].Parent = NULL]
    ELSE [m EXCEPT !.heap.Scope[S.v].Parent = CollAt(m.Info.ScopeInfoById, @.v)]

\* "Resolve the label"
ResolveScopeLabel(m, S) ==
    IF m.crash THEN m
    ELSE IF m.heap.Scope[S.v].Label.v = CC65_INV_ID
    THEN [m EXCEPT !.heap.Scope[S.v].Label = NULL]
    ELSE IF m.heap.Scope[S.v].Label.v >= CollCount(m.Info.SymInfoById)
    THEN [Error(m, "Invalid label id for scope") EXCEPT !.heap.Scope[S.v].Label = NULL]
    ELSE [m EXCEPT !.heap.Scope[S.v].Label = CollAt(m.Info.SymInfoById, @.v)]

RECURSIVE ProcessScopeInfoScopes(_, _)
ProcessScopeInfoScopes(m, I) ==
    IF m.crash \/ I >= CollCount(m.Info.ScopeInfoById) THEN m
    ELSE LET S == CollAt(m.Info.ScopeInfoById, I)
         IN  IF S = NULL THEN Crash(m)
             ELSE ProcessScopeInfoScopes(
                      ResolveScopeSpans(
                          ResolveScopeLabel(
                              ResolveScopeParent(ResolveScopeMod(m, S), S), S),
                          S.v, 0),
                      I + 1)

\* "Must have a main scope"
CheckMainScope(m, mp) ==
    IF m.heap.Mod[mp].MainScope = NULL THEN Error(m, "Module has no main scope") ELSE m

RECURSIVE ProcessScopeInfoModules(_, _)
ProcessScopeInfoModules(m, I) ==
    IF m.crash \/ I >= CollCount(m.Info.ModInfoById) THEN m
    ELSE LET M == CollAt(m.Info.ModInfoById, I)
         IN  IF M = NULL THEN Crash(m)
             ELSE ProcessScopeInfoModules(
                      [CheckMainScope(m, M.v) EXCEPT !.heap.Mod[M.v].ScopeInfoByName =
                          CollSort(@, KeysOf(m.heap.Scope, CompareScopeInfoByName))],
                      I + 1)

ProcessScopeInfo(m) == ProcessScopeInfoModules(ProcessScopeInfoScopes(m, 0), 0)

ProcessSegInfo(m) ==
    [m EXCEPT !.Info.SegInfoByName =
        CollSort(@, KeysOf(m.heap.Seg, CompareSegInfoByName))]

(***************************************************************************)
(* CreateSpanInfoList.  Spans is the temporary collection sorted by        *)
(* address, sp the SpanInfo structs.  An entry of L.List is                *)
(*   [Addr, Count, Data, Arr, Cap]                                         *)
(* Data is NULL, a pointer to the single span, or Array for the malloced   *)
(* indirect table, whose Cap slots are filled from Arr[1] on.  xmalloc     *)
(* does not clear the block and Step 2 does not set Addr: until Step 3     *)
(* writes it, Addr holds whatever the block held (garbage, any value), and *)
(* Written is FALSE.  r is [List, crash]; crash is set by an access        *)
(* outside the allocated block and by a failing assert.                    *)
(***************************************************************************)
Array == [k |-> "array", v |-> 0]

\* Step 1 loop; returns the number of unique addresses
RECURSIVE CountUnique(_, _, _, _, _)
CountUnique(Spans, sp, I, End, Count) ==
    IF I >= CollCount(Spans) THEN Count
    ELSE LET S == sp[CollAt(Spans, I).v]
         IN  IF S.Start > End
             THEN CountUnique(Spans, sp, I + 1, S.End,
                              U(Count + U(S.End - S.Start + UnsignedMod) + 1))
             ELSE IF S.End > End
             THEN CountUnique(Spans, sp, I + 1, S.End,
                              U(Count + U(S.End - End + UnsignedMod)))
             ELSE CountUnique(Spans, sp, I + 1, End, Count)

\* Step 3: for (J = StartIndex, Addr = S->Start; Addr <= S->End; ++J, ++Addr)
RECURSIVE CountRange(_, _, _, _)
CountRange(r, J, Addr, End) ==
    IF r.crash \/ Addr > End THEN r
    ELSE IF J >= Len(r.List) THEN [r EXCEPT !.crash = TRUE]
    ELSE CountRange([r EXCEPT !.List[J + 1].Addr = Addr,
                              !.List[J + 1].Written = TRUE,
                              !.List[J + 1].Count = U(@ + 1)],
                    J + 1, U(Addr + 1), End)

\* Step 5: the same loop, entering span S (a pointer)
RECURSIVE EnterRange(_, _, _, _, _)
EnterRange(r, S, J, Addr, End) ==
    IF r.crash \/ Addr > End THEN r
    ELSE IF J >= Len(r.List) THEN [r EXCEPT !.crash = TRUE]
    ELSE LET E == r.List[J + 1]
         IN  IF E.Addr # Addr THEN [r EXCEPT !.crash = TRUE]
             ELSE IF E.Count = 1 /\ E.Data = NULL
             THEN EnterRange([r EXCEPT !.List[J + 1].Data = S],
                             S, J + 1, U(Addr + 1), End)
             ELSE IF E.Data # Array \/ E.Count >= E.Cap
             THEN [r EXCEPT !.crash = TRUE]
             ELSE EnterRange([r EXCEPT !.List[J + 1].Arr = Append(@, S),
                                       !.List[J + 1].Count = @ + 1],
                             S, J + 1, U(Addr + 1), End)

\* The for (I = 1; ...) loops of Step 3 (enter = FALSE) and Step 5 (enter = TRUE)
RECURSIVE WalkSpans(_, _, _, _, _, _, _, _)
WalkSpans(r, Spans, sp, enter, I, StartIndex, Start, End) ==
    IF r.crash \/ I >= CollCount(Spans) THEN r
    ELSE LET P == CollAt(Spans, I)
             S == sp[P.v]
             within == S.Start <= End
             SI == IF within
                   THEN U(StartIndex + U(S.Start - Start + UnsignedMod))
                   ELSE U(StartIndex + U(End - Start + UnsignedMod) + 1)
             E1 == IF within THEN (IF S.End > End THEN S.End ELSE End) ELSE S.End
             r1 == IF enter THEN EnterRange(r, P, SI, S.Start, S.End)
                            ELSE CountRange(r, SI, S.Start, S.End)
         IN  WalkSpans(r1, Spans, sp, enter, I + 1, SI, S.Start, E1)

\* Step 4
AllocTables(List) ==
    [J \in 1..Len(List) |->
        IF List[J].Count > 1
        THEN [List[J] EXCEPT !.Data = Array, !.Cap = List[J].Count, !.Count = 0]
        ELSE List[J]]

\* Step 1: the number of unique addresses
Step1(Spans, sp) ==
    CountUnique(Spans, sp, 1, sp[CollAt(Spans, 0).v].End,
                U(U(sp[CollAt(Spans, 0).v].End - sp[CollAt(Spans, 0).v].Start
                    + UnsignedMod) + 1))

\* Step 2: allocate Count entries and set their Count and Data
Step2(Count, garbage) ==
    [List |-> [J \in 1..Count |->
                  [Addr |-> garbage, Written |-> FALSE, Count |-> 0, Data |-> NULL,
                   Arr |-> <<>>, Cap |-> 0]],
     crash |-> FALSE]

\* Step 3: the number of entries per unique address
Step3(r, Spans, sp) ==
    LET S0 == sp[CollAt(Spans, 0).v]
    IN  WalkSpans(CountRange(r, 0, S0.Start, S0.End),
                  Spans, sp, FALSE, 1, 0, S0.Start, S0.End)

\* Step 4: allocate the indirect tables
Step4(r) == [r EXCEPT !.List = AllocTables(@)]

\* Step 5: enter the data into the table
Step5(r, Spans, sp) ==
    LET S0 == sp[CollAt(Spans, 0).v]
    IN  WalkSpans(EnterRange(r, CollAt(Spans, 0), 0, S0.Start, S0.End),
                  Spans, sp, TRUE, 1, 0, S0.Start, S0.End)

\* L->Count, L->List as r has them after Step 5
SpanInfoListOf(r) == [L |-> [Count |-> Len(r.List), List |-> r.List], crash |-> r.crash]

CreateSpanInfoList(Spans, sp, garbage) ==
    IF CollCount(Spans) = 0
    THEN [L |-> [Count |-> 0, List |-> <<>>], crash |-> FALSE]
    ELSE SpanInfoListOf(
             Step5(Step4(Step3(Step2(Step1(Spans, sp), garbage), Spans, sp)), Spans, sp))

RECURSIVE ProcessSpanInfoSpans(_, _, _)
ProcessSpanInfoSpans(m, tmp, I) ==
    IF m.crash \/ I >= CollCount(m.Info.SpanInfoById) THEN [m |-> m, tmp |-> tmp]
    ELSE LET S == CollAt(m.Info.SpanInfoById, I)
         IN  IF S = NULL THEN [m |-> Crash(m), tmp |-> tmp]
             ELSE LET SegId == m.heap.Span[S.v].Seg.v
                      Seg == IF SegId >= CollCount(m.Info.SegInfoById) THEN NULL
                             ELSE CollAt(m.Info.SegInfoById, SegId)
                  IN  IF SegId >= CollCount(m.Info.SegInfoById)
                      THEN ProcessSpanInfoSpans(
                               [Error(m, "Invalid segment id for span")
                                    EXCEPT !.heap.Span[S.v].Seg = NULL],
                               CollAppend(tmp, S), I + 1)
                      ELSE IF Seg = NULL THEN [m |-> Crash(m), tmp |-> tmp]
                      ELSE ProcessSpanInfoSpans(
                               [m EXCEPT !.heap.Span[S.v].Seg = Seg,
                                         !.heap.Span[S.v].Start =
                                              U(@ + m.heap.Seg[Seg.v].Start),
                                         !.heap.Span[S.v].End =
                                              U(@ + m.heap.Seg[Seg.v].Start)],
                               CollAppend(tmp, S), I + 1)

\* The end of ProcessSpanInfo: sort the temporary collection r.tmp and create
\* the span info list from it
SortAndCreateList(r, garbage) ==
    IF r.m.crash THEN r.m
    ELSE LET c == CreateSpanInfoList(
                      CollSort(r.tmp, KeysOf(r.m.heap.Span, CompareSpanInfoByAddr)),
                      r.m.heap.Span, garbage)
         IN  [r.m EXCEPT !.Info = [@ EXCEPT !.SpanInfoByAddr = c.L], !.crash = c.crash]

ProcessSpanInfo(m, garbage) ==
    IF m.crash THEN m ELSE SortAndCreateList(ProcessSpanInfoSpans(m, <<>>, 0), garbage)

\* "Resolve segment" of the symbol at pointer sp
ResolveSymSeg(m, sp) ==
    IF m.heap.Sym[sp].Seg.v = CC65_INV_ID
    THEN [m EXCEPT !.heap.Sym[sp].Seg = NULL]
    ELSE IF m.heap.Sym[sp].Seg.v >= CollCount(m.Info.SegInfoById)
    THEN [Error(m, "Invalid segment id for symbol") EXCEPT !.heap.Sym[sp].Seg = NULL]
    ELSE [m EXCEPT !.heap.Sym[sp].Seg = CollAt(m.Info.SegInfoById, @.v)]

\* "Resolve the scope"
ResolveSymScope(m, sp) ==
    IF m.heap.Sym[sp].Scope.v = CC65_INV_ID
    THEN [m EXCEPT !.heap.Sym[sp].Scope = NULL]
    ELSE IF m.heap.Sym[sp].Scope.v >= CollCount(m.Info.ScopeInfoById)
    THEN [Error(m, "Invalid scope id for symbol") EXCEPT !.heap.Sym[sp].Scope = NULL]
    ELSE [m EXCEPT !.heap.Sym[sp].Scope = CollAt(m.Info.ScopeInfoById, @.v)]

\* "Resolve the parent"
ResolveSymParent(m, sp) ==
    IF m.heap.Sym[sp].Parent.v = CC65_INV_ID
    THEN [m EXCEPT !.heap.Sym[sp].Parent = NULL]
    ELSE IF m.heap.Sym[sp].Parent.v >= CollCount(m.Info.SymInfoById)
    THEN [Error(m, "Invalid parent id for symbol") EXCEPT !.heap.Sym[sp].Parent = NULL]
    ELSE [m EXCEPT !.heap.Sym[sp].Parent = CollAt(m.Info.SymInfoById, @.v)]

RECURSIVE ProcessSymInfoResolve(_, _)
ProcessSymInfoResolve(m, I) ==
    IF m.crash \/ I >= CollCount(m.Info.SymInfoById) THEN m
    ELSE LET S == CollAt(m.Info.SymInfoById, I)
         IN  IF S = NULL THEN Crash(m)
             ELSE ProcessSymInfoResolve(
                      ResolveSymParent(ResolveSymScope(ResolveSymSeg(m, S.v), S.v), S.v),
                      I + 1)

\* Second run: the scope of a cheap local is the scope of its parent
ResolveLocalScope(m, sp) ==
    IF m.heap.Sym[sp].Scope # NULL THEN m
    ELSE IF m.heap.Sym[sp].Parent = NULL
    THEN Error(m, "Symbol has no parent and no scope")
    ELSE IF m.heap.Sym[m.heap.Sym[sp].Parent.v].Scope = NULL
    THEN Error(m, "Symbol has parent without a scope")
    ELSE [m EXCEPT !.heap.Sym[sp].Scope = m.heap.Sym[m.heap.Sym[sp].Parent.v].Scope]

RECURSIVE ProcessSymInfoLocals(_, _)
ProcessSymInfoLocals(m, I) ==
    IF m.crash \/ I >= CollCount(m.Info.SymInfoById) THEN m
    ELSE LET S == CollAt(m.Info.SymInfoById, I)
         IN  IF S = NULL THEN Crash(m)
             ELSE ProcessSymInfoLocals(ResolveLocalScope(m, S.v), I + 1)

\* "Sort the symbol infos"
SortSymInfo(m) ==
    IF m.crash THEN m
    ELSE [m EXCEPT
             !.Info.SymInfoByName =
                 CollSort(@, KeysOf(m.heap.Sym, CompareSymInfoByName)),
             !.Info.SymInfoByVal =
                 CollSort(@, KeysOf(m.heap.Sym, CompareSymInfoByVal))]

ProcessSymInfo(m) == SortSymInfo(ProcessSymInfoLocals(ProcessSymInfoResolve(m, 0), 0))

ProcessAll(m, garbage) ==
    ProcessSymInfo(ProcessSpanInfo(ProcessSegInfo(ProcessScopeInfo(
        ProcessModInfo(ProcessLineInfo(ProcessFileInfo(m))))), garbage))

\* FreeDbgInfo: FreeFileInfo, FreeLineInfo, FreeModInfo, FreeScopeInfo,
\* FreeSegInfo and FreeSpanInfo dereference their argument; FreeLibInfo and
\* FreeSymInfo only pass it to free.  TRUE when the call crashes
FreeDbgInfoCrashes(info) ==
    \E C \in {info.FileInfoById, info.LineInfoById, info.ModInfoById,
              info.ScopeInfoById, info.SegInfoById, info.SpanInfoById} :
        \E i \in 1..Len(C) : C[i] = NULL

\* FreeDbgInfo: the items of each by-id collection, which the loops pass to
\* FreeFileInfo, FreeLibInfo, ... one after the other
FreeDbgInfo(info) ==
    [File |-> info.FileInfoById, Lib |-> info.LibInfoById,
     Line |-> info.LineInfoById, Mod |-> info.ModInfoById,
     Scope |-> info.ScopeInfoById, Seg |-> info.SegInfoById,
     Span |-> info.SpanInfoById, Sym |-> info.SymInfoById]

(***************************************************************************)
(* cc65_read_dbginfo, in steps                                             *)
(***************************************************************************)
\* VersionChecks as it would be without the goto CloseAndExit for an old
\* major version: the error is reported and the reader goes on
VersionChecksNoExit(d) ==
    IF d.MajorVersion < VER_MAJOR
    THEN [d |-> ConsumeEOL(ParseError(d, "CC65_ERROR",
                                      "old version, no longer supported")),
          exit |-> FALSE]
    ELSE [d |-> ConsumeEOL(d), exit |-> FALSE]

\* "Do several checks on the version number" and the ConsumeEOL after them.
\* Returns [d, exit]; exit = TRUE is goto CloseAndExit
VersionChecks(d) ==
    IF d.MajorVersion < VER_MAJOR
    THEN [d |-> ParseError(d, "CC65_ERROR", "old version, no longer supported"),
          exit |-> TRUE]
    ELSE IF d.MajorVersion = VER_MAJOR /\ d.MinorVersion > VER_MINOR
    THEN [d |-> ConsumeEOL(ParseError(d, "CC65_ERROR",
                                      "slightly newer version, it might work")),
          exit |-> FALSE]
    ELSE IF d.MajorVersion > VER_MAJOR
    THEN [d |-> ConsumeEOL(ParseError(d, "CC65_WARNING",
                                      "newer than what we know, will proceed")),
          exit |-> FALSE]
    ELSE [d |-> ConsumeEOL(d), exit |-> FALSE]

\* "The first line in the file must specify version information", d being
\* the scanner after the first NextToken
FirstLine(d) ==
    IF d.starved THEN [d |-> d, exit |-> FALSE]
    ELSE IF d.Tok # "TOK_VERSION"
    THEN [d |-> ParseError(d, "CC65_ERROR", "version keyword missing in first line"),
          exit |-> TRUE]
    ELSE IF ParseVersion(d).hung THEN [d |-> ParseVersion(d), exit |-> FALSE]
    ELSE VersionChecks(ParseVersion(d))

\* From "Prime the pump" to the ConsumeEOL after the version checks
VersionStep(d) == FirstLine(NextToken(d))

\* "EOL or EOF must follow", r being the result of the switch
LineEnd(r) == [r EXCEPT !.d = ConsumeEOL(@)]

\* One iteration of the while (D.Tok != TOK_EOF) loop.  Returns [d, db, created]
LineStep(d, db) ==
    LineEnd(CASE d.Tok \in RecordKinds -> ParseRecord(d.Tok, d, db)
              [] d.Tok = "TOK_IDENT" ->
                   [d |-> SkipLine(ParseError(d, "CC65_WARNING",
                                              "Unknown keyword - skipping")),
                    db |-> db, created |-> FALSE]
              [] OTHER ->
                   [d |-> UnexpectedToken(d), db |-> db, created |-> FALSE])

(***************************************************************************)
(* The input files: lexemes, lines, and the lines the environment may      *)
(* supply next                                                             *)
(***************************************************************************)
KwTok(t) == [tok |-> t, val |-> 0]
IntCon(n) == [tok |-> "TOK_INTCON", val |-> n]
StrCon(n) == [tok |-> "TOK_STRCON", val |-> n]
EOL == KwTok("TOK_EOL")
EOF == KwTok("TOK_EOF")

\* name=value
Attr(name, value) == <<KwTok(name), KwTok("TOK_EQUAL"), value>>

RECURSIVE Commas(_)
Commas(attrs) ==
    IF attrs = <<>> THEN <<>>
    ELSE IF Len(attrs) = 1 THEN attrs[1]
    ELSE attrs[1] \o <<KwTok("TOK_COMMA")>> \o Commas(Tail(attrs))

\* keyword attr,attr,...<EOL>
Rec(kw, attrs) == <<KwTok(kw)>> \o Commas(attrs) \o <<EOL>>

VersionLine(major, minor) ==
    Rec("TOK_VERSION", <<Attr("TOK_MAJOR", IntCon(major)), Attr("TOK_MINOR", IntCon(minor))>>)

SegLine(id, name, start) ==
    Rec("TOK_SEGMENT", <<Attr("TOK_ID", IntCon(id)), Attr("TOK_NAME", StrCon(name)),
                         Attr("TOK_START", IntCon(start)), Attr("TOK_SIZE", IntCon(UnsignedMod)),
                         Attr("TOK_ADDRSIZE", KwTok("TOK_ABSOLUTE")),
                         Attr("TOK_TYPE", KwTok("TOK_RW"))>>)

SpanLine(id, seg, start, size) ==
    Rec("TOK_SPAN", <<Attr("TOK_ID", IntCon(id)), Attr("TOK_SEGMENT", IntCon(seg)),
                      Attr("TOK_START", IntCon(start)), Attr("TOK_SIZE", IntCon(size))>>)

(***************************************************************************)
(* Lookup functions.  They return [status, data]: status is "null" for a   *)
(* NULL result, "data" for an allocated result struct with the entries in  *)
(* data, "crash" for a null pointer dereference.                           *)
(***************************************************************************)
\* Returns the index of the entry, -1 for not found
RECURSIVE FindSpanInfoByAddr(_, _, _, _)
FindSpanInfoByAddr(L, Addr, Lo, Hi) ==
    IF Lo > Hi THEN -1
    ELSE LET Cur == (Lo + Hi) \div 2
             CurItem == L.List[Cur + 1]
         IN  IF CurItem.Addr > Addr THEN FindSpanInfoByAddr(L, Addr, Lo, Cur - 1)
             ELSE IF CurItem.Addr < Addr THEN FindSpanInfoByAddr(L, Addr, Cur + 1, Hi)
             ELSE Cur

\* Returns the index into LineInfos, -1 for not found
RECURSIVE FindLineInfoByLine(_, _, _, _, _)
FindLineInfoByLine(LineInfos, lines, Line, Lo, Hi) ==
    IF Lo > Hi THEN -1
    ELSE LET Cur == (Lo + Hi) \div 2
             CurItem == lines[CollAt(LineInfos, Cur).v]
         IN  IF Line > CurItem.Line
             THEN FindLineInfoByLine(LineInfos, lines, Line, Cur + 1, Hi)
             ELSE IF Line < CurItem.Line
             THEN FindLineInfoByLine(LineInfos, lines, Line, Lo, Cur - 1)
             ELSE Cur

CopySpanInfo(h, S) ==
    [span_id |-> h.Span[S.v].Id, span_start |-> h.Span[S.v].Start,
     span_end |-> h.Span[S.v].End, segment_id |-> h.Seg[h.Span[S.v].Seg.v].Id]

\* What a read of S->Id delivers for an entry S of a collection.  An entry
\* that is a pointer to a SpanInfo delivers its id.  An entry that still
\* holds an id is used as an address: the read is undefined, and mem is what
\* the machine makes of it - a fault (mem.fault), or the value found at the
\* address (mem.at)
SpanIdAt(h, S, mem) == IF S.k = "ptr" THEN h.Span[S.v].Id ELSE mem.at[S.v]

\* The reads through the entries of Items fault: the machine faults, and an
\* entry is a null pointer or an id used as an address
CopyFaults(Items, mem) ==
    \E i \in 1..Len(Items) : Items[i] = NULL \/ (Items[i].k = "id" /\ mem.fault)

CopyLineInfo(h, L, mem) ==
    [line_id |-> h.Line[L.v].Id, source_id |-> h.File[h.Line[L.v].File.v].Id,
     source_line |-> h.Line[L.v].Line, line_type |-> h.Line[L.v].Type,
     count |-> h.Line[L.v].Count,
     span_list |-> [I \in 1..Len(h.Line[L.v].SpanInfoList) |->
                       SpanIdAt(h, h.Line[L.v].SpanInfoList[I], mem)]]

NullResult == [status |-> "null", data |-> <<>>]
CrashResult == [status |-> "crash", data |-> <<>>]

cc65_spaninfo_byaddr(info, h, Addr) ==
    LET L == info.SpanInfoByAddr
        e == FindSpanInfoByAddr(L, U(Addr), 0, L.Count - 1)
    IN  IF e = -1 THEN NullResult
        ELSE LET E == L.List[e + 1]
                 Items == IF E.Count = 1 THEN <<E.Data>> ELSE E.Arr
             IN  IF \E i \in 1..Len(Items) :
                        Items[i].k # "ptr" \/ Items[i] = NULL
                           \/ h.Span[Items[i].v].Seg = NULL
                 THEN CrashResult
                 ELSE [status |-> "data",
                       data |-> [i \in 1..Len(Items) |-> CopySpanInfo(h, Items[i])]]

cc65_lineinfo_byline(info, h, FileId, Line, mem) ==
    IF FileId >= CollCount(info.FileInfoById) THEN NullResult
    ELSE LET F == CollAt(info.FileInfoById, FileId)
         IN  IF F = NULL THEN CrashResult
             ELSE LET LineInfos == h.File[F.v].LineInfoByLine
                      l == FindLineInfoByLine(LineInfos, h.Line, Line,
                                              0, CollCount(LineInfos) - 1)
                  IN  IF l = -1 THEN NullResult
                      ELSE IF CopyFaults(h.Line[CollAt(LineInfos, l).v].SpanInfoList,
                                         mem)
                      THEN CrashResult
                      ELSE [status |-> "data",
                            data |-> <<CopyLineInfo(h, CollAt(LineInfos, l), mem)>>]

\* FindSymInfoByName as it would be if the search stopped at the first item
\* it finds with the name
RECURSIVE FindSymInfoByNameAnyMatch(_, _, _, _, _, _)
FindSymInfoByNameAnyMatch(SymInfos, syms, Name, Lo, Hi, Found) ==
    IF Lo > Hi THEN [Found |-> Found, Index |-> Lo]
    ELSE LET Cur == (Lo + Hi) \div 2
             CurItem == syms[CollAt(SymInfos, Cur).v]
         IN  IF CurItem.Name < Name
             THEN FindSymInfoByNameAnyMatch(SymInfos, syms, Name, Cur + 1, Hi, Found)
             ELSE IF CurItem.Name = Name THEN [Found |-> TRUE, Index |-> Cur]
             ELSE FindSymInfoByNameAnyMatch(SymInfos, syms, Name, Lo, Cur - 1, Found)

\* Returns [Found, Index]: Index is the position of the first item with the
\* name, or the insert position
RECURSIVE FindSymInfoByName(_, _, _, _, _, _)
FindSymInfoByName(SymInfos, syms, Name, Lo, Hi, Found) ==
    IF Lo > Hi THEN [Found |-> Found, Index |-> Lo]
    ELSE LET Cur == (Lo + Hi) \div 2
             CurItem == syms[CollAt(SymInfos, Cur).v]
         IN  IF CurItem.Name < Name
             THEN FindSymInfoByName(SymInfos, syms, Name, Cur + 1, Hi, Found)
             ELSE FindSymInfoByName(SymInfos, syms, Name, Lo, Cur - 1,
                                    Found \/ CurItem.Name = Name)

\* Returns [Found, Index], as FindSymInfoByName
RECURSIVE FindSymInfoByValue(_, _, _, _, _, _)
FindSymInfoByValue(SymInfos, syms, Value, Lo, Hi, Found) ==
    IF Lo > Hi THEN [Found |-> Found, Index |-> Lo]
    ELSE LET Cur == (Lo + Hi) \div 2
             CurItem == syms[CollAt(SymInfos, Cur).v]
         IN  IF Value > CurItem.Value
             THEN FindSymInfoByValue(SymInfos, syms, Value, Cur + 1, Hi, Found)
             ELSE FindSymInfoByValue(SymInfos, syms, Value, Lo, Cur - 1,
                                     Found \/ Value = CurItem.Value)

\* S->Scope.Info is dereferenced without a check
CopySymInfoCrashes(h, S) ==
    S.k # "ptr" \/ S = NULL \/ h.Sym[S.v].Scope.k # "ptr" \/ h.Sym[S.v].Scope = NULL

CopySymInfo(h, S) ==
    [symbol_id |-> h.Sym[S.v].Id, symbol_name |-> h.Sym[S.v].Name,
     symbol_type |-> h.Sym[S.v].Type, symbol_size |-> h.Sym[S.v].Size,
     symbol_value |-> h.Sym[S.v].Value,
     segment_id |-> IF h.Sym[S.v].Seg # NULL THEN h.Seg[h.Sym[S.v].Seg.v].Id
                                             ELSE CC65_INV_ID,
     scope_id |-> h.Scope[h.Sym[S.v].Scope.v].Id,
     parent_id |-> IF h.Sym[S.v].Parent # NULL THEN h.Sym[h.Sym[S.v].Parent.v].Id
                                                ELSE CC65_INV_ID]

\* "Allocate memory for the data structure" and "Fill in the data"
SymbolResult(h, Items) ==
    IF \E i \in 1..Len(Items) : CopySymInfoCrashes(h, Items[i])
    THEN CrashResult
    ELSE [status |-> "data", data |-> [i \in 1..Len(Items) |-> CopySymInfo(h, Items[i])]]

\* "Count how many symbols with this name we have"
RECURSIVE CountSameName(_, _, _, _, _)
CountSameName(SymInfoByName, syms, Name, Index, Count) ==
    IF Index + Count < CollCount(SymInfoByName)
       /\ syms[CollAt(SymInfoByName, Index + Count).v].Name = Name
    THEN CountSameName(SymInfoByName, syms, Name, Index, Count + 1)
    ELSE Count

\* The end of cc65_symbol_byname, f being the result of FindSymInfoByName
SymbolsFrom(info, h, Name, f) ==
    IF ~f.Found THEN NullResult
    ELSE SymbolResult(h, SubSeq(info.SymInfoByName, f.Index + 1,
                                f.Index + CountSameName(info.SymInfoByName, h.Sym,
                                                        Name, f.Index, 1)))

cc65_symbol_byname(info, h, Name) ==
    SymbolsFrom(info, h, Name,
                FindSymInfoByName(info.SymInfoByName, h.Sym, Name,
                                  0, CollCount(info.SymInfoByName) - 1, FALSE))

\* CollectLabels as it would be without "Ignore non-labels"
RECURSIVE CollectSymbols(_, _, _, _, _)
CollectSymbols(SymInfoByVal, syms, I, End, SymInfoList) ==
    IF I >= CollCount(SymInfoByVal) THEN SymInfoList
    ELSE IF syms[CollAt(SymInfoByVal, I).v].Value > End THEN SymInfoList
    ELSE CollectSymbols(SymInfoByVal, syms, I + 1, End,
                        CollAppend(SymInfoList, CollAt(SymInfoByVal, I)))

\* The for loop of cc65_symbol_inrange; returns SymInfoList
RECURSIVE CollectLabels(_, _, _, _, _)
CollectLabels(SymInfoByVal, syms, I, End, SymInfoList) ==
    IF I >= CollCount(SymInfoByVal) THEN SymInfoList
    ELSE IF syms[CollAt(SymInfoByVal, I).v].Value > End THEN SymInfoList
    ELSE IF syms[CollAt(SymInfoByVal, I).v].Type # "CC65_SYM_LABEL"
    THEN CollectLabels(SymInfoByVal, syms, I + 1, End, SymInfoList)
    ELSE CollectLabels(SymInfoByVal, syms, I + 1, End,
                       CollAppend(SymInfoList, CollAt(SymInfoByVal, I)))

\* The end of cc65_symbol_inrange
LabelResult(h, SymInfoList) ==
    IF CollCount(SymInfoList) = 0 THEN NullResult ELSE SymbolResult(h, SymInfoList)

cc65_symbol_inrange(info, h, Start, End) ==
    LabelResult(h, CollectLabels(info.SymInfoByVal, h.Sym,
                    FindSymInfoByValue(info.SymInfoByVal, h.Sym, Start,
                                       0, CollCount(info.SymInfoByVal) - 1,
                                       FALSE).Index,
                    End, <<>>))

(***************************************************************************)
(* Input families.  Lines(c, n) is the set of lines the environment may    *)
(* supply as line n (line 0 is the first line of the file) in family c.    *)
(***************************************************************************)
FileLine(id, name, mod) ==
    Rec("TOK_FILE", <<Attr("TOK_ID", IntCon(id)), Attr("TOK_NAME", StrCon(name)),
                      Attr("TOK_SIZE", IntCon(1)), Attr("TOK_MTIME", IntCon(1)),
                      Attr("TOK_MODULE", IntCon(mod))>>)

ModLine(id, name, file) ==
    Rec("TOK_MODULE", <<Attr("TOK_ID", IntCon(id)), Attr("TOK_NAME", StrCon(name)),
                        Attr("TOK_FILE", IntCon(file))>>)

ScopeLine(id, name, mod) ==
    Rec("TOK_SCOPE", <<Attr("TOK_ID", IntCon(id)), Attr("TOK_NAME", StrCon(name)),
                       Attr("TOK_MODULE", IntCon(mod))>>)

LineLine(id, file, line) ==
    Rec("TOK_LINE", <<Attr("TOK_ID", IntCon(id)), Attr("TOK_FILE", IntCon(file)),
                      Attr("TOK_LINE", IntCon(line))>>)

\* Segment start addresses of the span family: low, middle, and close to
\* the top of the address range
SegStarts == {0, 2, UnsignedMod - MaxStart}

SpanFamily(n) ==
    IF n = 0 THEN {VersionLine(VER_MAJOR, VER_MINOR)}
    ELSE IF n = 1 THEN {SegLine(0, 1, st) : st \in SegStarts}
    ELSE {SpanLine(n - 2, 0, st, sz) :
             st \in 0..MaxStart, sz \in 0..MaxSize}

LineFamily(n) ==
    CASE n = 0 -> {VersionLine(VER_MAJOR, VER_MINOR)}
      [] n = 1 -> {FileLine(0, 1, 0)}
      [] n = 2 -> {ModLine(0, 1, 0)}
      [] n = 3 -> {ScopeLine(0, 1, 0)}
      [] OTHER -> {LineLine(n - 4, 0, ln) : ln \in 0..MaxLineNo}

\* n1+n2+...
RECURSIVE Plus(_)
Plus(ids) ==
    IF Len(ids) = 1 THEN <<IntCon(ids[1])>>
    ELSE <<IntCon(ids[1]), KwTok("TOK_PLUS")>> \o Plus(Tail(ids))

\* A line record with the list of its spans
LineSpans(id, file, line, spans) ==
    Rec("TOK_LINE",
        <<Attr("TOK_ID", IntCon(id)), Attr("TOK_FILE", IntCon(file)),
          Attr("TOK_LINE", IntCon(line))>>
        \o (IF spans = <<>> THEN <<>>
            ELSE << <<KwTok("TOK_SPAN"), KwTok("TOK_EQUAL")>> \o Plus(spans) >>))

\* The span lists of the line records of the cross-reference family
SpanLists == {<<>>, <<0>>, <<1>>, <<0, 1>>}

\* A segment with two spans, a file with its module and scope, and line
\* records of that file with one of the span lists
XrefFamily(n) ==
    CASE n = 0 -> {VersionLine(VER_MAJOR, VER_MINOR)}
      [] n = 1 -> {SegLine(0, 1, 0)}
      [] n = 2 -> {SpanLine(0, 0, 0, 1)}
      [] n = 3 -> {SpanLine(1, 0, 1, 1)}
      [] n = 4 -> {FileLine(0, 1, 0)}
      [] n = 5 -> {ModLine(0, 1, 0)}
      [] n = 6 -> {ScopeLine(0, 1, 0)}
      [] OTHER -> {LineSpans(n - 7, 0, ln, spans) : ln \in 1..2, spans \in SpanLists}

\* A scope record of module 0 with the list of its spans; the parent
\* CC65_INV_ID stands for a record without the parent attribute
ScopeSpans(id, parent, spans) ==
    Rec("TOK_SCOPE",
        <<Attr("TOK_ID", IntCon(id)), Attr("TOK_NAME", StrCon(1)),
          Attr("TOK_MODULE", IntCon(0))>>
        \o (IF parent = CC65_INV_ID THEN <<>>
            ELSE <<Attr("TOK_PARENT", IntCon(parent))>>)
        \o (IF spans = <<>> THEN <<>>
            ELSE << <<KwTok("TOK_SPAN"), KwTok("TOK_EQUAL")>> \o Plus(spans) >>))

\* A segment with two spans, a file with its module, and scope records of
\* that module, with or without a parent and with one of the span lists
ScopeFamily(n) ==
    CASE n = 0 -> {VersionLine(VER_MAJOR, VER_MINOR)}
      [] n = 1 -> {SegLine(0, 1, 0)}
      [] n = 2 -> {SpanLine(0, 0, 0, 1)}
      [] n = 3 -> {SpanLine(1, 0, 1, 1)}
      [] n = 4 -> {FileLine(0, 1, 0)}
      [] n = 5 -> {ModLine(0, 1, 0)}
      [] OTHER -> {ScopeSpans(n - 6, parent, spans) :
                      parent \in {CC65_INV_ID, 0},
                      spans \in SpanLists \cup {<<0, 0>>}}

SymLine(id, name, type, value) ==
    Rec("TOK_SYM", <<Attr("TOK_ID", IntCon(id)), Attr("TOK_NAME", StrCon(name)),
                     Attr("TOK_ADDRSIZE", KwTok("TOK_ABSOLUTE")),
                     Attr("TOK_TYPE", KwTok(type)), Attr("TOK_VALUE", IntCon(value)),
                     Attr("TOK_SCOPE", IntCon(0))>>)

\* The names of the symbols of the symbol family
SymNames == {1, 2}

SymFamily(n) ==
    CASE n = 0 -> {VersionLine(VER_MAJOR, VER_MINOR)}
      [] n = 1 -> {FileLine(0, 1, 0)}
      [] n = 2 -> {ModLine(0, 1, 0)}
      [] n = 3 -> {ScopeLine(0, 1, 0)}
      [] OTHER -> {SymLine(n - 4, name, type, value) :
                      name \in SymNames, type \in {"TOK_LABEL", "TOK_EQUATE"},
                      value \in 0..MaxSymValue}

\* A symbol that has either a scope or a parent symbol
SymOwned(id, owner) ==
    Rec("TOK_SYM", <<Attr("TOK_ID", IntCon(id)), Attr("TOK_NAME", StrCon(1)),
                     Attr("TOK_ADDRSIZE", KwTok("TOK_ABSOLUTE")),
                     Attr("TOK_TYPE", KwTok("TOK_LABEL")), Attr("TOK_VALUE", IntCon(0)),
                     owner>>)

\* A file with its module and scope, and symbols of scope 0 or with one of
\* the symbols 0..2 as parent
LocalFamily(n) ==
    CASE n = 0 -> {VersionLine(VER_MAJOR, VER_MINOR)}
      [] n = 1 -> {FileLine(0, 1, 0)}
      [] n = 2 -> {ModLine(0, 1, 0)}
      [] n = 3 -> {ScopeLine(0, 1, 0)}
      [] OTHER -> {SymOwned(n - 4, owner) :
                      owner \in {Attr("TOK_SCOPE", IntCon(0))}
                                \cup {Attr("TOK_PARENT", IntCon(id)) : id \in 0..2}}

\* A complete record of each kind, with the given id; references are to id 0
BaseAttrs(kind, id) ==
    CASE kind = "TOK_FILE" ->
            <<Attr("TOK_ID", IntCon(id)), Attr("TOK_NAME", StrCon(1)),
              Attr("TOK_SIZE", IntCon(1)), Attr("TOK_MTIME", IntCon(1)),
              Attr("TOK_MODULE", IntCon(0))>>
      [] kind = "TOK_INFO" ->
            <<Attr("TOK_FILE", IntCon(1)), Attr("TOK_LIBRARY", IntCon(1)),
              Attr("TOK_SYM", IntCon(1))>>
      [] kind = "TOK_LIBRARY" ->
            <<Attr("TOK_ID", IntCon(id)), Attr("TOK_NAME", StrCon(1))>>
      [] kind = "TOK_LINE" ->
            <<Attr("TOK_ID", IntCon(id)), Attr("TOK_FILE", IntCon(0)),
              Attr("TOK_LINE", IntCon(1))>>
      [] kind = "TOK_MODULE" ->
            <<Attr("TOK_ID", IntCon(id)), Attr("TOK_NAME", StrCon(1)),
              Attr("TOK_FILE", IntCon(0))>>
      [] kind = "TOK_SCOPE" ->
            <<Attr("TOK_ID", IntCon(id)), Attr("TOK_NAME", StrCon(1)),
              Attr("TOK_MODULE", IntCon(0))>>
      [] kind = "TOK_SEGMENT" ->
            <<Attr("TOK_ID", IntCon(id)), Attr("TOK_NAME", StrCon(1)),
              Attr("TOK_START", IntCon(0)), Attr("TOK_SIZE", IntCon(1)),
              Attr("TOK_ADDRSIZE", KwTok("TOK_ABSOLUTE")),
              Attr("TOK_TYPE", KwTok("TOK_RW"))>>
      [] kind = "TOK_SPAN" ->
            <<Attr("TOK_ID", IntCon(id)), Attr("TOK_SEGMENT", IntCon(0)),
              Attr("TOK_START", IntCon(0)), Attr("TOK_SIZE", IntCon(1))>>
      [] kind = "TOK_SYM" ->
            <<Attr("TOK_ID", IntCon(id)), Attr("TOK_NAME", StrCon(1)),
              Attr("TOK_ADDRSIZE", KwTok("TOK_ABSOLUTE")),
              Attr("TOK_TYPE", KwTok("TOK_LABEL")),
              Attr("TOK_VALUE", IntCon(1)), Attr("TOK_SEGMENT", IntCon(0))>>

\* A file record of module 0 with the given name, time and size
FileTimed(id, key) ==
    Rec("TOK_FILE", <<Attr("TOK_ID", IntCon(id)), Attr("TOK_NAME", StrCon(key[1])),
                      Attr("TOK_SIZE", IntCon(key[3])), Attr("TOK_MTIME", IntCon(key[2])),
                      Attr("TOK_MODULE", IntCon(0))>>)

\* Name, time and size of the files, and value and name of the symbols, of
\* the family of the sorted indexes: the later field decides only when the
\* earlier ones are equal
FileKeys == {<<1, 1, 2>>, <<1, 2, 1>>, <<2, 1, 1>>}

SymKeys == {<<0, 1>>, <<0, 2>>, <<1, 1>>}

\* Three files, two modules with their main scopes, two segments and
\* symbols, with names (times, sizes, values) in any order
SortFamily(n) ==
    CASE n = 0 -> {VersionLine(VER_MAJOR, VER_MINOR)}
      [] n \in 1..3 -> {FileTimed(n - 1, key) : key \in FileKeys}
      [] n = 4 -> {ModLine(0, 2, 0)}
      [] n = 5 -> {ModLine(1, name, 0) : name \in {1, 2}}
      [] n = 6 -> {ScopeLine(0, 1, 0)}
      [] n = 7 -> {ScopeLine(1, 1, 1)}
      [] n = 8 -> {SegLine(0, 2, 0)}
      [] n = 9 -> {SegLine(1, name, 0) : name \in {1, 2, 3}}
      [] OTHER -> {SymLine(n - 10, key[2], "TOK_LABEL", key[1]) : key \in SymKeys}

\* Library and file records with any of the ids 0..MaxId, in any order: ids
\* that are new, that leave a gap, that fill one, or that are used already;
\* and a library record without its name, which is an error
IdFamily(n) ==
    IF n = 0 THEN {VersionLine(VER_MAJOR, VER_MINOR)}
    ELSE {Rec(kind, BaseAttrs(kind, id)) :
             kind \in {"TOK_LIBRARY", "TOK_FILE"}, id \in 0..MaxId}
         \cup {Rec("TOK_LIBRARY", <<Attr("TOK_ID", IntCon(0))>>)}

\* An attribute no record knows: future=42 (an identifier) and, as a keyword
\* that is no attribute of any record, major=42
FutureAttrs == {Attr("TOK_IDENT", IntCon(42)), Attr("TOK_MAJOR", IntCon(42))}

InsertAt(seq, pos, x) == SubSeq(seq, 1, pos - 1) \o <<x>> \o SubSeq(seq, pos, Len(seq))

RemoveAt(seq, pos) == SubSeq(seq, 1, pos - 1) \o SubSeq(seq, pos + 1, Len(seq))

\* Positions first, middle, last for an attribute list of length n
Positions(n) == {1, 2, n + 1}

\* The scope/parent variants of a sym record
SymOwners == {<<>>, <<Attr("TOK_SCOPE", IntCon(0))>>, <<Attr("TOK_PARENT", IntCon(0))>>,
              <<Attr("TOK_SCOPE", IntCon(0)), Attr("TOK_PARENT", IntCon(0))>>}

\* Attribute lists of kind: complete, with an unknown attribute, with one
\* attribute missing
AttrLists(kind, id) ==
    LET base == BaseAttrs(kind, id)
        full == IF kind = "TOK_SYM"
                THEN {base \o o : o \in SymOwners}
                ELSE {base}
        scoped == IF kind = "TOK_SYM"
                  THEN base \o <<Attr("TOK_SCOPE", IntCon(0))>> ELSE base
    IN  full
        \cup {InsertAt(scoped, pos, f) : pos \in Positions(Len(scoped)), f \in FutureAttrs}
        \cup {RemoveAt(scoped, pos) : pos \in 1..Len(base)}

GenRecords ==
    UNION {{Rec(kind, a) : a \in AttrLists(kind, 0)} : kind \in RecordKinds}

\* An unknown keyword line, a line that starts with a token that is no
\* keyword, and a record with an extra token before the end of the line
GenOther == {<<KwTok("TOK_IDENT"), IntCon(1), EOL>>, <<IntCon(1), EOL>>,
             <<KwTok("TOK_LIBRARY")>> \o Commas(BaseAttrs("TOK_LIBRARY", 0))
                 \o <<IntCon(1), EOL>>}

\* A character that starts no token, such as '#'
InvalidChar == KwTok("INVALID_CHAR")

\* A string constant without the closing quote: "a<EOL>
Unterminated(n) == [tok |-> "UNTERMINATED", val |-> n]

\* keyword attr,attr,...,name=<EOL>: the last attribute has no value
Valueless(kw, attrs, name) ==
    <<KwTok(kw)>> \o Commas(attrs)
        \o <<KwTok("TOK_COMMA"), KwTok(name), KwTok("TOK_EQUAL"), EOL>>

\* Lines with an error the parser recovers from: a token that starts no
\* attribute, a missing '=', a value of the wrong type, an attribute whose
\* value is missing before the end of the line (an integer, an address size,
\* a type), a string that is not terminated
GenBroken ==
    {<<KwTok("TOK_LIBRARY"), KwTok("TOK_PLUS"), EOL>>,
     <<KwTok("TOK_LIBRARY"), KwTok("TOK_ID"), IntCon(0), EOL>>,
     Rec("TOK_LIBRARY", <<Attr("TOK_ID", StrCon(1)), Attr("TOK_NAME", StrCon(1))>>),
     <<KwTok("TOK_LIBRARY"), KwTok("TOK_ID"), KwTok("TOK_EQUAL"), EOL>>,
     Valueless("TOK_SEGMENT", RemoveAt(BaseAttrs("TOK_SEGMENT", 0), 5), "TOK_ADDRSIZE"),
     Valueless("TOK_SYM", RemoveAt(BaseAttrs("TOK_SYM", 0), 4)
                              \o <<Attr("TOK_SCOPE", IntCon(0))>>, "TOK_TYPE"),
     Rec("TOK_LIBRARY", <<Attr("TOK_ID", IntCon(0)), Attr("TOK_NAME", Unterminated(1))>>)}

\* Lines that end in, or consist of, a character that starts no token
GenInvalid ==
    {<<InvalidChar, EOL>>,
     <<KwTok("TOK_LIBRARY")>> \o Commas(BaseAttrs("TOK_LIBRARY", 0))
         \o <<InvalidChar, EOL>>,
     <<KwTok("TOK_LIBRARY"), KwTok("TOK_ID"), KwTok("TOK_EQUAL"), InvalidChar, EOL>>}

\* The record kinds with a type attribute, and a record of each with the
\* given value of the attribute
TypedKinds == {"TOK_LINE", "TOK_SCOPE", "TOK_SEGMENT", "TOK_SYM"}

WithoutType(kind) ==
    CASE kind = "TOK_SEGMENT" -> RemoveAt(BaseAttrs(kind, 0), 6)
      [] kind = "TOK_SYM" -> RemoveAt(BaseAttrs(kind, 0), 4)
                                \o <<Attr("TOK_SCOPE", IntCon(0))>>
      [] OTHER -> BaseAttrs(kind, 0)

TypeValues(kind) ==
    {IntCon(1), KwTok("TOK_ZEROPAGE"),
     CASE kind = "TOK_LINE" -> KwTok("TOK_IDENT")
       [] kind = "TOK_SCOPE" -> KwTok("TOK_STRUCT")
       [] kind = "TOK_SEGMENT" -> KwTok("TOK_RO")
       [] kind = "TOK_SYM" -> KwTok("TOK_EQUATE")}

GenTyped ==
    {Rec(kind, WithoutType(kind) \o <<Attr("TOK_TYPE", v)>>) :
         kind \in TypedKinds, v \in UNION {TypeValues(k) : k \in TypedKinds}}

\* Second and later lines: a few records that complete or break the first,
\* with an id that is new, or used already, or leaves a gap
GenMore ==
    {Rec(kind, BaseAttrs(kind, id)) :
         kind \in {"TOK_LIBRARY", "TOK_SEGMENT", "TOK_SPAN", "TOK_MODULE", "TOK_SYM"},
         id \in 0..1}
    \cup {Rec("TOK_FILE", RemoveAt(BaseAttrs("TOK_FILE", id), 2)) : id \in 0..1}
    \cup {<<InvalidChar, EOL>>}

GenFamily(n) ==
    CASE n = 0 -> {VersionLine(VER_MAJOR, VER_MINOR), VersionLine(VER_MAJOR - 1, 0),
                   VersionLine(VER_MAJOR, VER_MINOR + 1), VersionLine(VER_MAJOR + 1, 0),
                   Rec("TOK_LIBRARY", BaseAttrs("TOK_LIBRARY", 0)),
                   <<InvalidChar, EOL>>,
                   <<KwTok("TOK_VERSION"), KwTok("TOK_MAJOR"), KwTok("TOK_EQUAL"),
                     IntCon(VER_MAJOR), InvalidChar, EOL>>}
      [] n = 1 -> GenRecords \cup GenOther \cup GenBroken \cup GenInvalid \cup GenTyped
      [] OTHER -> GenMore

Lines(c, n) ==
    CASE c = "gen" -> GenFamily(n)
      [] c = "span" -> SpanFamily(n)
      [] c = "line" -> LineFamily(n)
      [] c = "sym" -> SymFamily(n)
      [] c = "xref" -> XrefFamily(n)
      [] c = "scope" -> ScopeFamily(n)
      [] c = "local" -> LocalFamily(n)
      [] c = "ids" -> IdFamily(n)
      [] c = "sort" -> SortFamily(n)

\* Number of lines of the longest file of a family (the version line included)
MaxLines(c) ==
    CASE c = "gen" -> MaxLinesGen + 1
      [] c = "span" -> MaxLinesSpan + 1
      [] c = "line" -> MaxLinesLine + 1
      [] c = "sym" -> MaxLinesSym + 1
      [] c = "xref" -> MaxLinesXref + 1
      [] c = "scope" -> MaxLinesScope + 1
      [] c = "local" -> MaxLinesLocal + 1
      [] c = "ids" -> MaxLinesIds + 1
      [] c = "sort" -> MaxLinesSort + 1

(***************************************************************************)
(* The state machine                                                       *)
(***************************************************************************)
InitD ==
    [Tok |-> "TOK_INVALID", IVal |-> 0, SVal |-> 0, Errors |-> 0, Diag |-> <<>>,
     MajorVersion |-> 0, MinorVersion |-> 0, rest |-> <<>>, starved |-> FALSE,
     stuck |-> FALSE, hung |-> FALSE]

NoResult == [op |-> "none", arg |-> <<>>, status |-> "null", data |-> <<>>]

InitFamily(c) ==
    /\ pc = "start"
    /\ D = InitD
    /\ Info = NewDbgInfo
    /\ heap = EmptyHeap
    /\ handle = "none"
    /\ cat = c
    /\ nfed = 0
    /\ passes = 0
    /\ result = NoResult

Init == InitFamily("gen")
InitSpan == InitFamily("span")
InitLine == InitFamily("line")
InitSym == InitFamily("sym")
InitXref == InitFamily("xref")
InitScope == InitFamily("scope")
InitLocal == InitFamily("local")
InitIds == InitFamily("ids")
InitSort == InitFamily("sort")

EofFed == D.rest # <<>> /\ D.rest[Len(D.rest)].tok = "TOK_EOF"

\* The step the reader is at cannot complete with the input supplied so far
Starves ==
    CASE pc = "start" -> VersionStep(D).d.starved
      [] pc = "records" -> LineStep(D, [Info |-> Info, heap |-> heap]).d.starved
      [] OTHER -> FALSE

\* The environment: the file's next line, or its end
Feed ==
    /\ Starves
    /\ ~EofFed
    /\ \E line \in (IF nfed < MaxLines(cat) THEN Lines(cat, nfed) ELSE {})
                      \cup {<<EOF>>} :
          D' = [D EXCEPT !.rest = @ \o line]
    /\ nfed' = nfed + 1
    /\ UNCHANGED <<pc, Info, heap, handle, cat, passes, result>>

\* cc65_read_dbginfo up to the loop over the lines
\* A stuck scanner never delivers TOK_EOF: the loop over the lines, or the
\* loop the reader hangs in, goes on reporting the character ("looping")
VersionDone(r) ==
    /\ ~r.d.starved
    /\ D' = r.d
    /\ pc' = IF r.exit THEN "close"
             ELSE IF r.d.stuck THEN "looping"
             ELSE IF r.d.Tok = "TOK_EOF" THEN "close" ELSE "records"

ReadVersion ==
    /\ pc = "start"
    /\ VersionDone(VersionStep(D))
    /\ UNCHANGED <<Info, heap, handle, cat, nfed, passes, result>>

\* One iteration of the loop over the lines
LineDone(r) ==
    /\ ~r.d.starved
    /\ D' = r.d
    /\ Info' = r.db.Info
    /\ heap' = r.db.heap
    /\ pc' = IF r.d.stuck THEN "looping"
             ELSE IF r.d.Tok = "TOK_EOF" THEN "close" ELSE "records"

ParseLines ==
    /\ pc = "records"
    /\ LineDone(LineStep(D, [Info |-> Info, heap |-> heap]))
    /\ UNCHANGED <<handle, cat, nfed, passes, result>>

\* CloseAndExit: up to the check of D.Errors
CloseAndExit ==
    /\ pc = "close"
    /\ IF D.Errors > 0
       THEN IF FreeDbgInfoCrashes(Info)
            THEN pc' = "crashed" /\ handle' = handle
            ELSE pc' = "failed" /\ handle' = "NULL"
       ELSE pc' = "postprocess" /\ handle' = handle
    /\ UNCHANGED <<D, Info, heap, cat, nfed, passes, result>>

\* The Process functions and the return of D.Info.  garbage is what the
\* block that xmalloc returned for the span table held
Processed(m) ==
    /\ D' = m.d
    /\ Info' = m.Info
    /\ heap' = m.heap
    /\ pc' = IF m.crash THEN "crashed" ELSE "loaded"
    /\ handle' = IF m.crash THEN handle ELSE "Info"

PostProcess ==
    /\ pc = "postprocess"
    /\ \E garbage \in 0..(UnsignedMod - 1) :
          Processed(ProcessAll([d |-> D, Info |-> Info, heap |-> heap,
                                crash |-> FALSE], garbage))
    /\ passes' = passes + 1
    /\ UNCHANGED <<cat, nfed, result>>

\* The handle has been returned and can be passed to a lookup function.  The
\* lookup functions do not change the database, so a call returns the same
\* whether it is the first or a later one: the model follows one per load
Callable == pc = "loaded" /\ result = NoResult

\* The arguments of the calls of a lookup function: all of S in the input
\* families C, which supply the records the function looks up, and the single
\* argument one in the other families
Args(C, S, one) == IF cat \in C THEN S ELSE {one}

\* What the machine can make of the reads through span ids used as
\* addresses: a fault, or any value at each of the addresses
Memory ==
    {[fault |-> TRUE, at |-> [a \in 0..1 |-> 0]]}
    \cup {[fault |-> FALSE, at |-> f] : f \in [0..1 -> 0..(UnsignedMod - 1)]}

\* A call of cc65_spaninfo_byaddr with the handle
SpanInfoByAddr ==
    /\ Callable
    /\ \E Addr \in Args({"span"}, 0..(UnsignedMod - 1), 0) :
          result' = [op |-> "cc65_spaninfo_byaddr", arg |-> <<Addr>>]
                    @@ cc65_spaninfo_byaddr(Info, heap, Addr)
    /\ UNCHANGED <<pc, D, Info, heap, handle, cat, nfed, passes>>

\* A call of cc65_lineinfo_byline with the handle
LineInfoByLine ==
    /\ Callable
    /\ \E FileId \in Args({"line", "xref"}, 0..1, 0),
          Line \in Args({"line", "xref"}, 0..MaxLineNo, 1),
          mem \in Memory :
          result' = [op |-> "cc65_lineinfo_byline", arg |-> <<FileId, Line>>]
                    @@ cc65_lineinfo_byline(Info, heap, FileId, Line, mem)
    /\ UNCHANGED <<pc, D, Info, heap, handle, cat, nfed, passes>>

\* A call of cc65_symbol_byname with the handle
SymbolByName ==
    /\ Callable
    /\ \E Name \in Args({"sym"}, SymNames \cup {0, 3}, 1) :
          result' = [op |-> "cc65_symbol_byname", arg |-> <<Name>>]
                    @@ cc65_symbol_byname(Info, heap, Name)
    /\ UNCHANGED <<pc, D, Info, heap, handle, cat, nfed, passes>>

\* A call of cc65_symbol_inrange with the handle
SymbolInRange ==
    /\ Callable
    /\ \E Start \in Args({"sym"}, 0..MaxSymValue, 0),
          End \in Args({"sym"}, 0..MaxSymValue, 0) :
          result' = [op |-> "cc65_symbol_inrange", arg |-> <<Start, End>>]
                    @@ cc65_symbol_inrange(Info, heap, Start, End)
    /\ UNCHANGED <<pc, D, Info, heap, handle, cat, nfed, passes>>

Next ==
    \/ Feed
    \/ ReadVersion
    \/ ParseLines
    \/ CloseAndExit
    \/ PostProcess
    \/ SpanInfoByAddr
    \/ LineInfoByLine
    \/ SymbolByName
    \/ SymbolInRange

Spec == Init /\ [][Next]_vars
SpecSpan == InitSpan /\ [][Next]_vars
SpecLine == InitLine /\ [][Next]_vars
SpecSym == InitSym /\ [][Next]_vars
SpecXref == InitXref /\ [][Next]_vars
SpecScope == InitScope /\ [][Next]_vars
SpecLocal == InitLocal /\ [][Next]_vars
SpecIds == InitIds /\ [][Next]_vars
SpecSort == InitSort /\ [][Next]_vars

(***************************************************************************)
(* Properties                                                              *)
(***************************************************************************)
\* A load that returned a handle without any error diagnostic
Loaded == pc = "loaded" /\ handle = "Info" /\ D.Errors = 0

\* The spans of the database (pointers)
DbSpans == {Info.SpanInfoById[i].v : i \in 1..Len(Info.SpanInfoById)} \ {0}

\* The spans of the database that cover address a
Covering(a) == {p \in DbSpans : heap.Span[p].Start <= a /\ a <= heap.Span[p].End}

\* The positions of the result of a lookup that hold the span at pointer p
Returned(r, p) == {i \in 1..Len(r.data) : r.data[i].span_id = heap.Span[p].Id}

\* C1: after a successful load, for every span S and every address a with
\* S.start <= a <= S.end (after adding the segment start),
\* cc65_spaninfo_byaddr(a) returns a result that contains S
C1_CoveringSpansReturned ==
    Loaded =>
        \A a \in 0..(UnsignedMod - 1) : \A p \in Covering(a) :
            LET r == cc65_spaninfo_byaddr(Info, heap, a)
            IN  r.status = "data" /\ Returned(r, p) # {}

\* Two spans at the same addresses and a third one that overlaps them have
\* been loaded, and a lookup returned all three
C1_Witness ==
    /\ Loaded
    /\ result.op = "cc65_spaninfo_byaddr"
    /\ Len(result.data) = 3
    /\ \E p, q, o \in DbSpans :
          /\ p # q
          /\ heap.Span[p].Start = heap.Span[q].Start
          /\ heap.Span[p].End = heap.Span[q].End
          /\ heap.Span[o].Start < heap.Span[p].Start
          /\ heap.Span[o].End < heap.Span[p].End
          /\ {p, q, o} \subseteq Covering(result.arg[1])

\* C2: cc65_spaninfo_byaddr(a) returns exactly the spans that cover a, each
\* exactly once, and NULL for an address that no span covers
C2_ExactlyCoveringSpans ==
    Loaded =>
        \A a \in 0..(UnsignedMod - 1) :
            LET r == cc65_spaninfo_byaddr(Info, heap, a)
            IN  IF Covering(a) = {}
                THEN r.status = "null"
                ELSE /\ r.status = "data"
                     /\ Len(r.data) = Cardinality(Covering(a))
                     /\ \A p \in Covering(a) : Cardinality(Returned(r, p)) = 1

\* A lookup of the address one past the end of a span, which is also below
\* the start of the next span, returned NULL
C2_Witness ==
    /\ Loaded
    /\ result.op = "cc65_spaninfo_byaddr"
    /\ result.status = "null"
    /\ \E p, q \in DbSpans :
          /\ heap.Span[p].Start <= heap.Span[p].End
          /\ heap.Span[p].End + 1 = result.arg[1]
          /\ heap.Span[q].Start <= heap.Span[q].End
          /\ heap.Span[q].Start > result.arg[1]

\* A diagnostic with the given message has been passed to the error callback
Said(msg) == \E i \in 1..Len(D.Diag) : D.Diag[i].msg = msg

\* cc65_read_dbginfo is still reading (for ever, when it loops at an invalid
\* character) or about to leave through CloseAndExit
Reading == pc \in {"start", "records", "looping", "close"}

\* C3: load never returns a non-null handle for a run in which an
\* error-severity diagnostic was emitted; in particular a resolver error
\* makes it return null
C3_NoHandleAfterError == handle = "Info" => D.Errors = 0

\* The resolver has run and has reported an out-of-range segment id of a span
C3_Witness ==
    /\ passes = 1
    /\ D.Errors > 0
    /\ Said("Invalid segment id for span")

\* C4: the resolver runs at most once, and only after end-of-file has been
\* reached with an error count of zero; after an error while lexing or
\* parsing no resolver pass is executed and the load returns null
C4_ResolverOnceAfterCleanEOF ==
    /\ [][passes' # passes =>
            passes = 0 /\ D.Errors = 0 /\ D.Tok = "TOK_EOF"]_vars
    /\ []((D.Errors > 0 /\ passes = 0) =>
            (Reading \/ (pc = "failed" /\ handle = "NULL")))

\* A record line was in error, end-of-file has been reached, and the load
\* returned null without a resolver pass
C4_Witness ==
    /\ pc = "failed"
    /\ handle = "NULL"
    /\ passes = 0
    /\ D.Tok = "TOK_EOF"
    /\ Said("Required attributes missing")

\* The value that the line at the head of the input gives attribute name (a
\* set: empty when the line does not have the attribute)
ValuesOf(name) ==
    {D.rest[i + 2].val : i \in {j \in 1..(Len(D.rest) - 2) :
                                   /\ D.rest[j].tok = name
                                   /\ D.rest[j + 1].tok = "TOK_EQUAL"
                                   /\ \A k \in 1..j : D.rest[k].tok # "TOK_EOL"}}

\* The reader is at the start and the input begins with a version record
VersionFirst == pc = "start" /\ D.rest # <<>> /\ D.rest[1].tok = "TOK_VERSION"

\* The input does not begin with the version keyword, or its version record
\* has a major version below the supported one
FatalFirstLine ==
    /\ pc = "start"
    /\ D.rest # <<>>
    /\ \/ D.rest[1].tok # "TOK_VERSION"
       \/ \E major \in ValuesOf("TOK_MAJOR") : major < VER_MAJOR

FatalSaid ==
    \/ Said("version keyword missing in first line")
    \/ Said("old version, no longer supported")

NewerMinorFirst ==
    /\ VersionFirst
    /\ ValuesOf("TOK_MAJOR") = {VER_MAJOR}
    /\ \E minor \in ValuesOf("TOK_MINOR") : minor > VER_MINOR

\* C6: a version record with major = 2 and minor > 0 yields a warning and
\* does not increase the error count, and a file that causes no other
\* diagnostic still loads to a non-null handle
C6_NewerMinorIsWarning ==
    /\ [][(NewerMinorFirst /\ pc' # pc) =>
            /\ D'.Errors = D.Errors
            /\ \E i \in 1..Len(D'.Diag) : D'.Diag[i].type = "CC65_WARNING"]_vars
    /\ []((Said("slightly newer version, it might work") /\ Len(D.Diag) = 1) =>
            (Reading \/ pc = "postprocess" \/ handle = "Info"))

\* A file with version 2.1 and no other diagnostic has been read to its end
C6_Witness ==
    /\ ~Reading
    /\ D.MajorVersion = VER_MAJOR
    /\ D.MinorVersion > VER_MINOR
    /\ Len(D.Diag) = 1
    /\ Len(Info.LibInfoById) > 0

(***************************************************************************)
(* The record line a step of the loop over the lines is about to parse:    *)
(* D.Tok is its keyword, D.rest begins with its attributes                 *)
(***************************************************************************)
\* Position in D.rest of the token that ends the line
EolPos ==
    CHOOSE i \in 1..Len(D.rest) :
        /\ D.rest[i].tok \in {"TOK_EOL", "TOK_EOF"}
        /\ \A k \in 1..(i - 1) : D.rest[k].tok \notin {"TOK_EOL", "TOK_EOF"}

\* The reader is at a record line that is a list name=value,...,name=value
AtRecord ==
    /\ pc = "records"
    /\ D.Tok \in RecordKinds
    /\ D.rest # <<>>
    /\ EolPos % 4 = 0
    /\ \A i \in 1..(EolPos - 1) :
          /\ i % 4 = 1 => (D.rest[i].tok = "TOK_IDENT" \/ TokenIsKeyword(D.rest[i].tok))
          /\ i % 4 = 2 => D.rest[i].tok = "TOK_EQUAL"
          /\ i % 4 = 3 => D.rest[i].tok \notin {"TOK_EQUAL", "TOK_COMMA"}
          /\ i % 4 = 0 => D.rest[i].tok = "TOK_COMMA"

\* Positions and names of the attributes of the line
NamePos == {i \in 1..(EolPos - 1) : i % 4 = 1}
LineNames == {D.rest[i].tok : i \in NamePos}
UnknownPos == {i \in NamePos : D.rest[i].tok \notin KnownAttrs(D.Tok)}

\* The line gives every required attribute of its kind, and what has to be
\* paired or exclusive is so
Complete ==
    /\ RequiredAttrs(D.Tok) \subseteq LineNames
    /\ D.Tok = "TOK_SYM" => Cardinality(LineNames \cap {"TOK_SCOPE", "TOK_PARENT"}) = 1
    /\ D.Tok = "TOK_SEGMENT" =>
          Cardinality(LineNames \cap {"TOK_OUTPUTNAME", "TOK_OUTPUTOFFS"}) # 1

\* The step is one iteration of the loop over the lines, and the scanner has
\* not run into a character that starts no token
LineParsed == pc = "records" /\ nfed' = nfed /\ D' # D /\ ~D'.stuck

\* The step has appended exactly one diagnostic, of the given type
OneMore(type) ==
    /\ Len(D'.Diag) = Len(D.Diag) + 1
    /\ D'.Diag[Len(D'.Diag)].type = type

\* The step has created a record of the kind of the line (ParseInfo creates
\* none)
Created == D.Tok # "TOK_INFO" => heap' # heap /\ Info' # Info

\* C7: in every record kind an unknown attribute name=value at any position
\* of the attribute list yields exactly one warning and no error, and the
\* record is created from the other attributes
C7_UnknownAttributeSkipped ==
    [][(AtRecord /\ LineParsed /\ Cardinality(UnknownPos) = 1 /\ Complete) =>
          /\ OneMore("CC65_WARNING")
          /\ D'.Errors = D.Errors
          /\ Created]_vars

\* A file record with an unknown attribute in the last position has been
\* created, with one warning and no error
C7_Witness ==
    /\ Len(heap.File) = 1
    /\ D.Errors = 0
    /\ Len(D.Diag) = 1
    /\ D.Diag[1] = [type |-> "CC65_WARNING", msg |-> "Unknown keyword - skipping"]

\* The load has ended after the given error by returning null
ReturnsNullAfter(msg) == Said(msg) => (Reading \/ (pc = "failed" /\ handle = "NULL"))

\* C8: a record is inserted only if every required attribute of its kind was
\* given; a line that lacks one emits "Required attributes missing", leaves
\* all collections unchanged and makes the load return null
C8_RequiredAttributes ==
    /\ [][(AtRecord /\ LineParsed /\ (heap' # heap \/ Info' # Info)) =>
             RequiredAttrs(D.Tok) \subseteq LineNames]_vars
    /\ [][(AtRecord /\ LineParsed /\ UnknownPos = {}
              /\ ~(RequiredAttrs(D.Tok) \subseteq LineNames)) =>
             /\ OneMore("CC65_ERROR")
             /\ D'.Diag[Len(D'.Diag)].msg = "Required attributes missing"
             /\ D'.Errors = D.Errors + 1
             /\ heap' = heap
             /\ Info' = Info]_vars
    /\ [](ReturnsNullAfter("Required attributes missing"))

\* A line without one of its required attributes was rejected and the load
\* returned null with an empty database
C8_Witness ==
    /\ pc = "failed"
    /\ handle = "NULL"
    /\ Said("Required attributes missing")
    /\ Len(D.Diag) = 1
    /\ heap = EmptyHeap

\* C9: a sym record with both scope and parent, or with neither, records
\* exactly one error, is not inserted into the symbol collection or the
\* symbol indices, and the load returns null
C9_SymScopeXorParent ==
    /\ [][(AtRecord /\ LineParsed /\ D.Tok = "TOK_SYM" /\ UnknownPos = {}
              /\ Cardinality(LineNames \cap {"TOK_SCOPE", "TOK_PARENT"}) # 1) =>
             /\ OneMore("CC65_ERROR")
             /\ D'.Errors = D.Errors + 1
             /\ heap' = heap
             /\ Info' = Info]_vars
    /\ [](ReturnsNullAfter("Only one of parent, scope must be specified"))

\* A sym record with both scope and parent, or with neither, was rejected and
\* the load returned null
C9_Witness ==
    /\ pc = "failed"
    /\ handle = "NULL"
    /\ D.Diag = <<[type |-> "CC65_ERROR",
                   msg |-> "Only one of parent, scope must be specified"]>>
    /\ heap.Sym = <<>>

\* The line records of the database (pointers)
DbLines == {Info.LineInfoById[i].v : i \in 1..Len(Info.LineInfoById)} \ {0}

\* The line records that name the file with the given id and pointer: after
\* the resolver a LineInfo holds the pointer of its file, or still its id
LinesOf(FileId, F) ==
    {p \in DbLines : heap.Line[p].File = F \/ heap.Line[p].File = Id(FileId)}

\* The indices of the entries with the given line number in a line list
MatchesAt(LineInfos, Line) ==
    {i \in 0..(CollCount(LineInfos) - 1) : heap.Line[CollAt(LineInfos, i).v].Line = Line}

Lowest(S) == CHOOSE i \in S : \A j \in S : i <= j

\* What C10 says of the result r of a lookup in the valid file FileId
FirstMatch(r, FileId, Line, F) ==
    /\ r.status = "null" <=>
          \A p \in LinesOf(FileId, F) : heap.Line[p].Line # Line
    /\ MatchesAt(heap.File[F.v].LineInfoByLine, Line) # {} =>
          /\ r.status = "data"
          /\ r.data[1].line_id =
                heap.Line[CollAt(heap.File[F.v].LineInfoByLine,
                                 Lowest(MatchesAt(heap.File[F.v].LineInfoByLine,
                                                  Line))).v].Id

\* C10: cc65_lineinfo_byline returns empty for an invalid file id; for a
\* valid one it returns the entry at the lowest index of the file's sorted
\* line list among those with the line number, and it returns empty only
\* when no line record of that file has that number
C10_FirstMatchingLine ==
    Loaded =>
        \A FileId \in 0..1, Line \in 0..MaxLineNo, mem \in Memory :
            IF FileId >= CollCount(Info.FileInfoById)
            THEN cc65_lineinfo_byline(Info, heap, FileId, Line, mem).status = "null"
            ELSE FirstMatch(cc65_lineinfo_byline(Info, heap, FileId, Line, mem),
                            FileId, Line, CollAt(Info.FileInfoById, FileId))

\* A lookup in a file whose line list holds two entries with different line
\* numbers returned the entry with the higher number
C10_Witness ==
    /\ Loaded
    /\ result.op = "cc65_lineinfo_byline"
    /\ result.status = "data"
    /\ result.arg[1] = 0
    /\ \E i \in MatchesAt(heap.File[1].LineInfoByLine, result.arg[2]) :
          /\ i > 0
          /\ heap.Line[CollAt(heap.File[1].LineInfoByLine, 0).v].Line < result.arg[2]
          /\ result.data[1].source_line = result.arg[2]

\* The symbols of the database (pointers)
DbSyms == {Info.SymInfoById[i].v : i \in 1..Len(Info.SymInfoById)} \ {0}

\* The symbols with the given name
SymsNamed(Name) == {p \in DbSyms : heap.Sym[p].Name = Name}

\* The positions of the result of a lookup that hold the symbol at pointer p
ReturnedSym(r, p) == {i \in 1..Len(r.data) : r.data[i].symbol_id = heap.Sym[p].Id}

\* The result r holds each symbol of the set S exactly once and nothing else
ExactlySyms(r, S) ==
    IF S = {} THEN r.status = "null"
    ELSE /\ r.status = "data"
         /\ Len(r.data) = Cardinality(S)
         /\ \A p \in S : Cardinality(ReturnedSym(r, p)) = 1

LabelsIn(Start, End) ==
    {p \in DbSyms : /\ heap.Sym[p].Type = "CC65_SYM_LABEL"
                    /\ Start <= heap.Sym[p].Value
                    /\ heap.Sym[p].Value <= End}

TokOf(x) == IF x.tok = "UNTERMINATED" THEN "TOK_STRCON" ELSE x.tok

\* The step has consumed the line the reader was at, its end included, and
\* nothing of the line after it but the token the loop looks at next
Resumed ==
    IF D.rest[EolPos].tok = "TOK_EOF"
    THEN /\ D'.Tok = "TOK_EOF"
         /\ D'.rest = SubSeq(D.rest, EolPos, Len(D.rest))
    ELSE /\ D'.Tok = TokOf(D.rest[EolPos + 1])
         /\ D'.rest = SubSeq(D.rest,
                             IF D.rest[EolPos + 1].tok = "TOK_EOF"
                             THEN EolPos + 1 ELSE EolPos + 2,
                             Len(D.rest))

\* C13: after a recoverable error in a record line (unexpected token, missing
\* '=', wrong value type, missing value, unterminated string) the parser has
\* consumed the tokens up to the end of that line and no token of a later
\* line, and goes on with the line that follows
C13_ResumesAtNextLine ==
    [][(LineParsed /\ D.Tok \in RecordKinds /\ D'.Errors > D.Errors) => Resumed]_vars

\* A library line without '=' was rejected and the library line after it was
\* parsed and its record created
C13_Witness ==
    /\ D.Diag = <<[type |-> "CC65_ERROR", msg |-> "'=' expected"]>>
    /\ Len(heap.Lib) = 1
    /\ nfed >= 3

\* C14: the load terminates on every finite input: the reader is never in a
\* loop that reports the same invalid input character again and again
C14_LoadTerminates == pc # "looping"

\* After a lexer error (a string without the closing quote) the record loop
\* has reached the end of the file and the load has returned null
C14_Witness ==
    /\ pc = "failed"
    /\ handle = "NULL"
    /\ D.Tok = "TOK_EOF"
    /\ Said("Unterminated string constant")

\* The keywords (tokens) a type attribute may have as its value.  The three
\* line types are no keywords of the scanner, which delivers TOK_IDENT
TypeEnum(kind) ==
    CASE kind = "TOK_LINE" -> {"TOK_IDENT"}
      [] kind = "TOK_SCOPE" -> {"TOK_GLOBAL", "TOK_FILE", "TOK_SCOPE", "TOK_STRUCT",
                                "TOK_ENUM"}
      [] kind = "TOK_SEGMENT" -> {"TOK_RO", "TOK_RW"}
      [] kind = "TOK_SYM" -> {"TOK_EQUATE", "TOK_LABEL"}

\* The positions of the type attribute in the line
TypePos == {i \in NamePos : D.rest[i].tok = "TOK_TYPE"}

\* The reader is at a record line that has, besides what its kind requires,
\* a type attribute whose value is not one of the kind's keywords
BadType ==
    /\ AtRecord
    /\ D.Tok \in TypedKinds
    /\ UnknownPos = {}
    /\ Complete
    /\ Cardinality(TypePos) = 1
    /\ \A i \in TypePos : D.rest[i + 2].tok \notin TypeEnum(D.Tok)

\* C15: in a line, scope, segment or sym record a type value outside the
\* kind's enumerated keywords, an integer included, yields an error and the
\* record is not created
C15_TypeIsEnumKeyword ==
    [][(BadType /\ LineParsed) =>
          /\ D'.Errors = D.Errors + 1
          /\ heap' = heap
          /\ Info' = Info]_vars

\* A scope or sym record whose type is a keyword outside the enumerated set
\* was rejected: one error, no record
C15_Witness ==
    /\ D.Diag = <<[type |-> "CC65_ERROR", msg |-> "Unknown value for attribute type"]>>
    /\ heap = EmptyHeap
    /\ pc = "records"

\* The reader is at a record line whose attribute list, complete for its
\* kind, is followed by one more token (an integer) before the end of the line
AtRecordWithExtra ==
    /\ pc = "records"
    /\ D.Tok \in RecordKinds
    /\ D.rest # <<>>
    /\ EolPos > 4
    /\ EolPos % 4 = 1
    /\ D.rest[EolPos - 1].tok = "TOK_INTCON"
    /\ \A i \in 1..(EolPos - 2) :
          /\ i % 4 = 1 => D.rest[i].tok \in KnownAttrs(D.Tok)
          /\ i % 4 = 2 => D.rest[i].tok = "TOK_EQUAL"
          /\ i % 4 = 3 => D.rest[i].tok \in {"TOK_INTCON", "TOK_STRCON"}
          /\ i % 4 = 0 => D.rest[i].tok = "TOK_COMMA"
    /\ RequiredAttrs(D.Tok) \subseteq {D.rest[i].tok : i \in {j \in 1..(EolPos - 2) : j % 4 = 1}}

\* C16: extra tokens after the complete attribute list of a record yield a
\* warning: the error count does not increase and the record is created
C16_ExtraTokensIsWarning ==
    [][(AtRecordWithExtra /\ LineParsed) =>
          /\ OneMore("CC65_WARNING")
          /\ D'.Errors = D.Errors
          /\ Created]_vars

\* The line lib id=0,name="a" 1 has been parsed: its name and the extra
\* integer have been scanned, one diagnostic was emitted
C16_Witness ==
    /\ nfed = 3
    /\ pc = "records"
    /\ Len(D.Diag) = 1
    /\ D.Diag[1].msg = "Unexpected input token"
    /\ D.SVal = 1
    /\ D.IVal = 1

\* The addresses that lie in the range [Start..End] of at least one span
CoveredAddrs == {a \in 0..(UnsignedMod - 1) : Covering(a) # {}}

\* C17: the number of entries of the span-by-address index, as Step 1 of
\* CreateSpanInfoList computes it, equals the number of distinct addresses in
\* the union of the ranges [start..end] of all spans
C17_UniqueAddressCount ==
    Loaded => Info.SpanInfoByAddr.Count = Cardinality(CoveredAddrs)

\* Three spans were loaded, two of them equal and the third overlapping
\* them from below, none with an end below its start, and the index has one
\* entry per covered address
C17_Witness ==
    /\ Loaded
    /\ \A p \in DbSpans : heap.Span[p].Start <= heap.Span[p].End
    /\ \E p, q, o \in DbSpans :
          /\ p # q
          /\ heap.Span[p].Start = heap.Span[q].Start
          /\ heap.Span[p].End = heap.Span[q].End
          /\ heap.Span[o].Start < heap.Span[p].Start
          /\ heap.Span[o].End >= heap.Span[p].Start
          /\ heap.Span[o].End < heap.Span[p].End
    /\ Info.SpanInfoByAddr.Count = Cardinality(CoveredAddrs)
    /\ Info.SpanInfoByAddr.Count >= 3

\* The collections indexed by id
ByIdCollections ==
    {Info.FileInfoById, Info.LibInfoById, Info.LineInfoById, Info.ModInfoById,
     Info.ScopeInfoById, Info.SegInfoById, Info.SpanInfoById, Info.SymInfoById}

\* Some collection has a slot that CollReplaceExpand filled with a null
\* pointer and no record has replaced since
HasHole == \E C \in ByIdCollections : \E i \in 1..Len(C) : C[i] = NULL

\* C18: when a by-id collection has an unpopulated slot at the end of
\* parsing, the load does not return a handle, and neither the resolver nor
\* the destruction of the database dereferences the null placeholder
C18_HolesRejected == HasHole => (pc # "crashed" /\ handle # "Info")

\* A collection has an unpopulated slot at the end of the file, and the load
\* has destroyed the database and returned null
C18_Witness ==
    /\ HasHole
    /\ pc = "failed"
    /\ handle = "NULL"
    /\ D.Tok = "TOK_EOF"

\* The file id that the line record at pointer p was declared with
DeclaredFile(p) ==
    IF heap.Line[p].File.k = "id" THEN heap.Line[p].File.v
    ELSE heap.File[heap.Line[p].File.v].Id

\* The line record at pointer p has its file reference resolved and is
\* exactly once in the line list of that file
LineResolved(p) ==
    /\ heap.Line[p].File.k = "ptr"
    /\ heap.Line[p].File # NULL
    /\ LET LineInfos == heap.File[heap.Line[p].File.v].LineInfoByLine
       IN  Cardinality({j \in 1..Len(LineInfos) : LineInfos[j] = Ptr(p)}) = 1

\* C19: after a successful load every line record has its file reference
\* resolved and is exactly once in the line list of its file, whatever its
\* position in the line collection, and cc65_lineinfo_byline finds a line
\* for the file and line number of every line record
C19_EveryLineResolved ==
    Loaded =>
        \A p \in DbLines :
            /\ LineResolved(p)
            /\ \A mem \in Memory :
                  cc65_lineinfo_byline(Info, heap, DeclaredFile(p),
                                       heap.Line[p].Line, mem).status = "data"

\* Three line records were loaded; the third is resolved, is in the line
\* list of its file, and a lookup has returned it
C19_Witness ==
    /\ Loaded
    /\ Len(Info.LineInfoById) >= 3
    /\ Info.LineInfoById[3] # NULL
    /\ LineResolved(Info.LineInfoById[3].v)
    /\ result.op = "cc65_lineinfo_byline"
    /\ result.status = "data"
    /\ result.data[1].line_id = 2

\* The entries of a collection
Entries(C) == {C[i] : i \in 1..Len(C)}

\* The ids of the spans in the span list of the line record at pointer p, as
\* its record declared them
DeclaredSpans(p) ==
    {IF e.k = "id" THEN e.v ELSE heap.Span[e.v].Id :
         e \in Entries(heap.Line[p].SpanInfoList)}

\* The span list of a result entry, as a set
ReportedSpans(e) == {e.span_list[i] : i \in 1..Len(e.span_list)}

\* C20: after a successful load the span list of every line holds resolved
\* span records, a span S is in the list of line L if and only if L is in
\* the line list of S, and the span set cc65_lineinfo_byline reports for a
\* line is the set of span ids declared on its record
C20_LineSpanXrefSymmetric ==
    Loaded =>
        \A p \in DbLines :
            /\ \A e \in Entries(heap.Line[p].SpanInfoList) : e.k = "ptr" /\ e # NULL
            /\ \A s \in DbSpans :
                  Ptr(s) \in Entries(heap.Line[p].SpanInfoList)
                      <=> Ptr(p) \in Entries(heap.Span[s].LineInfoList)
            /\ \A mem \in Memory :
                  LET r == cc65_lineinfo_byline(Info, heap, DeclaredFile(p),
                                                heap.Line[p].Line, mem)
                  IN  /\ r.status # "crash"
                      /\ (r.status = "data" /\ r.data[1].line_id = heap.Line[p].Id)
                             => ReportedSpans(r.data[1]) = DeclaredSpans(p)

\* Two spans and a line record without a span list were loaded, no span has
\* a line, and a lookup has returned the line with an empty span list
C20_Witness ==
    /\ Loaded
    /\ Cardinality(DbSpans) = 2
    /\ \A s \in DbSpans : heap.Span[s].LineInfoList = <<>>
    /\ result.op = "cc65_lineinfo_byline"
    /\ result.status = "data"
    /\ result.data[1].span_list = <<>>
    /\ \E p \in DbLines :
          /\ heap.Line[p].Id = result.data[1].line_id
          /\ heap.Line[p].SpanInfoList = <<>>

\* The scopes and the modules of the database (pointers)
DbScopes == {Info.ScopeInfoById[i].v : i \in 1..Len(Info.ScopeInfoById)} \ {0}

DbMods == {Info.ModInfoById[i].v : i \in 1..Len(Info.ModInfoById)} \ {0}

\* The scopes of the database that belong to the module at M and have no parent
ParentlessScopes(M) ==
    {s \in DbScopes : heap.Scope[s].Mod = Ptr(M) /\ heap.Scope[s].Parent = NULL}

\* C21: after a load that returned a handle without an error, every module
\* has exactly one scope of its own without parent, and the main scope of
\* the module is that scope (so an input with none or several such scopes
\* for a module is never loaded)
C21_OneMainScopePerModule ==
    Loaded =>
        \A M \in DbMods :
            /\ Cardinality(ParentlessScopes(M)) = 1
            /\ heap.Mod[M].MainScope \in {Ptr(s) : s \in ParentlessScopes(M)}

\* A module with two scopes without parent was loaded without an error, and
\* its main scope is one of the two
C21_Witness ==
    /\ Loaded
    /\ \E M \in DbMods :
          /\ Cardinality(ParentlessScopes(M)) = 2
          /\ heap.Mod[M].MainScope \in {Ptr(s) : s \in ParentlessScopes(M)}

\* The symbol at p has a scope of its own: it has no parent, and its scope
\* was resolved in the first run (a symbol record has either of the two)
OwnScope(p) == heap.Sym[p].Parent = NULL /\ heap.Sym[p].Scope # NULL

\* The symbols of the database with a parent symbol
Locals == {s \in DbSyms : heap.Sym[s].Parent # NULL}

\* Number of diagnostics with the given message
CountSaid(msg) == Cardinality({i \in 1..Len(D.Diag) : D.Diag[i].msg = msg})

\* C22: after the second run over the symbols, a symbol with a parent has
\* the scope of its parent when the parent has a scope of its own, and
\* otherwise has no scope and was reported with "has parent without a
\* scope" - whatever the order of the ids of the two
C22_LocalInheritsParentScope ==
    pc = "loaded" =>
        /\ \A s \in Locals :
              heap.Sym[s].Scope = IF OwnScope(heap.Sym[s].Parent.v)
                                  THEN heap.Sym[heap.Sym[s].Parent.v].Scope
                                  ELSE NULL
        /\ CountSaid("Symbol has parent without a scope")
              = Cardinality({s \in Locals : ~OwnScope(heap.Sym[s].Parent.v)})

\* A symbol whose parent has a higher id than its own and a scope of its own
\* has got the scope of the parent, without any diagnostic
C22_Witness ==
    /\ Loaded
    /\ \E s \in Locals :
          /\ heap.Sym[heap.Sym[s].Parent.v].Id > heap.Sym[s].Id
          /\ OwnScope(heap.Sym[s].Parent.v)
          /\ heap.Sym[s].Scope = heap.Sym[heap.Sym[s].Parent.v].Scope

\* The kinds of records, as the fields of the heap are named, and the
\* collection of the database db that holds the records of a kind by id
Kinds == {"File", "Lib", "Line", "Mod", "Scope", "Seg", "Span", "Sym"}

ById(info, kind) ==
    CASE kind = "File" -> info.FileInfoById
      [] kind = "Lib" -> info.LibInfoById
      [] kind = "Line" -> info.LineInfoById
      [] kind = "Mod" -> info.ModInfoById
      [] kind = "Scope" -> info.ScopeInfoById
      [] kind = "Seg" -> info.SegInfoById
      [] kind = "Span" -> info.SpanInfoById
      [] kind = "Sym" -> info.SymInfoById

\* The records of a kind created so far that were inserted with the id
Inserted(h, kind, id) == {p \in 1..Len(h[kind]) : h[kind][p].Id = id}

Highest(S) == CHOOSE x \in S : \A y \in S : y <= x

\* The by-id collection of a kind is as the insertions so far make it: slot
\* i holds the record inserted last with id i, or null when there was none,
\* and the count is one above the highest id inserted
SlotsAsInserted(info, h, kind) ==
    LET C == ById(info, kind)
        ids == {h[kind][p].Id : p \in 1..Len(h[kind])}
    IN  /\ Len(C) = IF ids = {} THEN 0 ELSE Highest(ids) + 1
        /\ \A i \in 1..Len(C) :
              C[i] = IF Inserted(h, kind, i - 1) = {} THEN NULL
                     ELSE Ptr(Highest(Inserted(h, kind, i - 1)))
        /\ \A i \in 1..Len(C) : C[i] # NULL => h[kind][C[i].v].Id = i - 1

\* C23: while the records are read, each step leaves every by-id collection
\* with the record of id i in every populated slot i, null in the slots no
\* record was inserted at, a count of one plus the highest id inserted, and
\* the slots the step did not insert at as they were
C23_SlotsHoldTheirIds ==
    [][Reading =>
          \A kind \in Kinds :
              /\ SlotsAsInserted(Info', heap', kind)
              /\ \A i \in 1..Len(ById(Info, kind)) :
                    \/ ById(Info', kind)[i] = ById(Info, kind)[i]
                    \/ /\ Len(heap'[kind]) = Len(heap[kind]) + 1
                       /\ ById(Info', kind)[i] = Ptr(Len(heap'[kind]))
                       /\ heap'[kind][Len(heap'[kind])].Id = i - 1]_vars

\* Three library records were inserted in descending order of their ids,
\* with a gap between the first two that the third has filled
C23_Witness ==
    /\ Len(heap.Lib) = 3
    /\ heap.Lib[1].Id = 2 /\ heap.Lib[2].Id = 0 /\ heap.Lib[3].Id = 1
    /\ Info.LibInfoById = <<Ptr(2), Ptr(3), Ptr(1)>>

\* Number of entries of the collection C that are the item
Times(C, Item) == Cardinality({i \in 1..Len(C) : C[i] = Item})

\* C24: after a load that returned a handle without an error, a scope has a
\* span in its span list as many times as the span has the scope in its
\* scope list, both lists hold records of the database only, and every
\* scope with a module is in the scope list of that module exactly once
C24_ScopeSpanXrefSymmetric ==
    Loaded =>
        /\ \A c \in DbScopes :
              /\ Entries(heap.Scope[c].SpanInfoList) \subseteq {Ptr(s) : s \in DbSpans}
              /\ \A s \in DbSpans :
                    Times(heap.Scope[c].SpanInfoList, Ptr(s))
                        = Times(heap.Span[s].ScopeInfoList, Ptr(c))
              /\ heap.Scope[c].Mod # NULL =>
                    Times(heap.Mod[heap.Scope[c].Mod.v].ScopeInfoByName, Ptr(c)) = 1
        /\ \A s \in DbSpans :
              Entries(heap.Span[s].ScopeInfoList) \subseteq {Ptr(c) : c \in DbScopes}
        /\ \A M \in DbMods :
              Entries(heap.Mod[M].ScopeInfoByName) \subseteq {Ptr(c) : c \in DbScopes}

\* Two scopes of one module were loaded; one of them has the same span twice
\* in its list and that span has that scope twice, the other span is shared
\* by no scope or by the other scope only
C24_Witness ==
    /\ Loaded
    /\ Cardinality(DbScopes) = 2
    /\ \E c \in DbScopes : \E s \in DbSpans :
          /\ Times(heap.Scope[c].SpanInfoList, Ptr(s)) = 2
          /\ Times(heap.Span[s].ScopeInfoList, Ptr(c)) = 2
    /\ \E M \in DbMods : Len(heap.Mod[M].ScopeInfoByName) = 2

\* C25: every span of a database that was loaded without an error ends at
\* or after the address it starts at
C25_SpanEndNotBelowStart ==
    Loaded => \A s \in DbSpans : heap.Span[s].End >= heap.Span[s].Start

\* A database was loaded whose only span was declared with size 0 at an
\* offset above 0 of a segment that starts at 0: it ends one below its start
C25_Witness ==
    /\ Loaded
    /\ Cardinality(DbSpans) = 1
    /\ \A g \in 1..Len(heap.Seg) : heap.Seg[g].Start = 0
    /\ \E s \in DbSpans :
          /\ heap.Span[s].Start > 0
          /\ heap.Span[s].End = heap.Span[s].Start - 1

\* The span at pointer s was declared with size 0: its end is one below its
\* start in the arithmetic of cc65_addr, before and after the rebase
ZeroSize(s) == heap.Span[s].End = U(heap.Span[s].Start + UnsignedMod - 1)

NotZeroSize(e) == e # NULL /\ ~ZeroSize(e.v)

\* The address index of the database without its spans of size 0
IndexWithoutZeroSize(garbage) ==
    CreateSpanInfoList(
        CollSort(SelectSeq(Info.SpanInfoById, NotZeroSize),
                 KeysOf(heap.Span, CompareSpanInfoByAddr)),
        heap.Span, garbage)

\* The spans entered at an entry of the address index
EntrySpans(E) ==
    IF E.Data = NULL THEN {} ELSE IF E.Data = Array THEN Entries(E.Arr) ELSE {E.Data}

\* Two address indexes have the same entries: the same addresses at the same
\* slots, with the same spans
SameIndex(L1, L2) ==
    /\ L1.Count = L2.Count
    /\ Len(L1.List) = Len(L2.List)
    /\ \A J \in 1..Len(L1.List) :
          /\ L1.List[J].Addr = L2.List[J].Addr
          /\ L1.List[J].Count = L2.List[J].Count
          /\ EntrySpans(L1.List[J]) = EntrySpans(L2.List[J])

\* C26: when the database has a span of size 0, wherever it starts, the
\* construction of the address index ends as it would without that span,
\* the index has the entries it would have without it, and no lookup of an
\* address returns it
C26_ZeroSizeSpanSkipped ==
    (pc \in {"loaded", "crashed"} /\ \E s \in DbSpans : ZeroSize(s)) =>
        \E garbage \in 0..(UnsignedMod - 1) :
            LET e == IndexWithoutZeroSize(garbage)
            IN  /\ (pc = "crashed") = e.crash
                /\ pc = "loaded" =>
                      /\ SameIndex(Info.SpanInfoByAddr, e.L)
                      /\ \A a \in 0..(UnsignedMod - 1) : \A s \in DbSpans :
                            ZeroSize(s) =>
                                Returned(cc65_spaninfo_byaddr(Info, heap, a), s) = {}

\* The only span of the input has size 0 and starts at the absolute address
\* 0, so that its end is the highest address, and CreateSpanInfoList has
\* written beyond the list it allocated
C26_Witness ==
    /\ pc = "crashed"
    /\ Cardinality(DbSpans) = 1
    /\ \A s \in DbSpans :
          /\ ZeroSize(s)
          /\ heap.Span[s].Start = 0
          /\ heap.Span[s].End = UnsignedMod - 1

\* The tuple L is not above the tuple R of the same length: at the first
\* position where they differ, L is below R
NotAbove(L, R) ==
    \A i \in 1..Len(L) : (\A j \in 1..(i - 1) : L[j] = R[j]) => L[i] <= R[i]

\* The orders of the indexes
NameTimeSize(F) == <<F.Name, F.MTime, F.Size>>

NameOnly(R) == <<R.Name>>

ValueName(S) == <<S.Value, S.Name>>

\* The collection C of pointers to the records objs is in non-decreasing
\* order of the key
SortedBy(C, objs, Key(_)) ==
    \A i \in 1..(Len(C) - 1) : NotAbove(Key(objs[C[i].v]), Key(objs[C[i + 1].v]))

\* The collection C holds every record of objs exactly once and nothing else
PermutationOf(C, objs) ==
    /\ Len(C) = Len(objs)
    /\ Entries(C) = {Ptr(p) : p \in 1..Len(objs)}

\* C27: after a load that returned a handle without an error, the files by
\* name are in order of (name, time, size), the modules, the segments and
\* the symbols by name in order of their names, the symbols by value in
\* order of (value, name), and each of these indexes holds every record
\* that parsing appended to it exactly once
C27_IndexesSorted ==
    Loaded =>
        /\ SortedBy(Info.FileInfoByName, heap.File, NameTimeSize)
        /\ SortedBy(Info.ModInfoByName, heap.Mod, NameOnly)
        /\ SortedBy(Info.SegInfoByName, heap.Seg, NameOnly)
        /\ SortedBy(Info.SymInfoByName, heap.Sym, NameOnly)
        /\ SortedBy(Info.SymInfoByVal, heap.Sym, ValueName)
        /\ PermutationOf(Info.FileInfoByName, heap.File)
        /\ PermutationOf(Info.ModInfoByName, heap.Mod)
        /\ PermutationOf(Info.SegInfoByName, heap.Seg)
        /\ PermutationOf(Info.SymInfoByName, heap.Sym)
        /\ PermutationOf(Info.SymInfoByVal, heap.Sym)

\* A database was loaded whose files, modules, segments and symbols were
\* all declared in descending order of their keys
C27_Witness ==
    /\ Loaded
    /\ Len(heap.File) = 3 /\ Len(heap.Mod) = 2 /\ Len(heap.Seg) = 2 /\ Len(heap.Sym) = 2
    /\ \A i \in 1..2 :
          ~NotAbove(NameTimeSize(heap.File[i]), NameTimeSize(heap.File[i + 1]))
    /\ heap.Mod[1].Name > heap.Mod[2].Name
    /\ heap.Seg[1].Name > heap.Seg[2].Name
    /\ heap.Sym[1].Value > heap.Sym[2].Value
    /\ Info.FileInfoByName = <<Ptr(3), Ptr(2), Ptr(1)>>
    /\ Info.SymInfoByVal = <<Ptr(2), Ptr(1)>>

\* C28: when the load has failed and destroyed the database, and when a
\* loaded database is destroyed through its handle, every record that was
\* created while parsing is passed to the Free function of its kind exactly
\* once
C28_EveryRecordFreedOnce ==
    pc \in {"failed", "loaded"} =>
        \A kind \in Kinds : \A p \in 1..Len(heap[kind]) :
            Times(FreeDbgInfo(Info)[kind], Ptr(p)) = 1

\* The load has failed after two library records with the same id were
\* created: the database that was destroyed held only the second
C28_Witness ==
    /\ pc = "failed"
    /\ Len(heap.Lib) = 2
    /\ heap.Lib[1].Id = heap.Lib[2].Id
    /\ Times(FreeDbgInfo(Info).Lib, Ptr(1)) = 0
    /\ Times(FreeDbgInfo(Info).Lib, Ptr(2)) = 1

\* The address index is complete: every entry was written by Step 3, every
\* auxiliary array has got as many spans as Step 3 counted for it, and the
\* addresses of the entries are strictly ascending
IndexComplete(L) ==
    /\ \A J \in 1..Len(L.List) :
          /\ L.List[J].Written
          /\ L.List[J].Data = Array => Len(L.List[J].Arr) = L.List[J].Cap
          /\ L.List[J].Data # Array => L.List[J].Data # NULL
    /\ \A J \in 1..(Len(L.List) - 1) : L.List[J].Addr < L.List[J + 1].Addr

\* C29: when no span of the database ends below its start, the construction
\* of the address index from the sorted spans writes no slot at or above the
\* count of Step 1, fails no assertion and overflows no auxiliary array, and
\* leaves an index that is complete and strictly ascending by address
C29_IndexConstructionInBounds ==
    (pc \in {"loaded", "crashed"}
     /\ \A s \in DbSpans : heap.Span[s].End >= heap.Span[s].Start) =>
        /\ pc = "loaded"
        /\ IndexComplete(Info.SpanInfoByAddr)

\* The construction has written beyond the list for a database with one
\* span, which covers the highest address only
C29_Witness ==
    /\ pc = "crashed"
    /\ Cardinality(DbSpans) = 1
    /\ \A s \in DbSpans :
          /\ heap.Span[s].Start = UnsignedMod - 1
          /\ heap.Span[s].End = UnsignedMod - 1

\* The index holds the records of the by-id collection C, each once, and
\* nothing else
SameRecords(index, C) ==
    /\ Entries(index) = Entries(C) \ {NULL}
    /\ \A e \in Entries(index) : Times(index, e) = 1

\* C30: whatever was parsed, the files by name, the modules by name, the
\* segments by name and the symbols by name and by value are the records of
\* the by-id collection of their kind: a record found through an index is
\* the record at its id
C30_IndexesHoldByIdRecords ==
    /\ SameRecords(Info.FileInfoByName, Info.FileInfoById)
    /\ SameRecords(Info.ModInfoByName, Info.ModInfoById)
    /\ SameRecords(Info.SegInfoByName, Info.SegInfoById)
    /\ SameRecords(Info.SymInfoByName, Info.SymInfoById)
    /\ SameRecords(Info.SymInfoByVal, Info.SymInfoById)

\* Two file records with the same id were parsed: the files by name hold
\* both, the files by id hold the second one only
C30_Witness ==
    /\ Len(heap.File) = 2
    /\ heap.File[1].Id = heap.File[2].Id
    /\ Entries(Info.FileInfoByName) = {Ptr(1), Ptr(2)}
    /\ Entries(Info.FileInfoById) \ {NULL} = {Ptr(2)}

====
